---- MODULE Spec2Model ----
(***************************************************************************)
(* Buffer pool manager (BufferPoolManagerInstance) of the storage engine.  *)
(*                                                                         *)
(* The pool operations are operators over a pool state record, so that a   *)
(* caller that issues several pool calls in one operation composes them.   *)
(* The replacer (LRU-K), the page table and the block device are           *)
(* collaborators whose code is outside the modelled sources; they follow   *)
(* sections 4.1, 4.2 and 6 of the specification.                           *)
(*                                                                         *)
(* Callers learn page ids from NewPage only, so the page ids passed to     *)
(* FetchPage, UnpinPage, FlushPage and DeletePage are drawn from the ids   *)
(* the allocator has handed out.  The is_dirty argument of UnpinPage and   *)
(* the bytes a caller writes through a pinned page are unconstrained.      *)
(***************************************************************************)
EXTENDS Integers, Sequences, FiniteSets, TLC

\* ---------------------------------------------------------------- bounds
\* Spec: a pool of PoolSize frames over page ids 0 .. MaxPageId, callers only
\* call the pool.  DataSpec: a pool of DataPoolSize frames over page ids
\* 0 .. DataMaxPageId whose callers also write bytes 0 .. MaxData into the
\* pages they have pinned.  MaxClock and DataMaxClock bound the replacer's
\* logical clock in the two specifications.
PoolSize == 2
MaxPageId == 2
DataPoolSize == 1
DataMaxPageId == 1
MaxData == 1
ReplacerK == 2
MaxClock == 3
DataMaxClock == 2

\* ------------------------------------------------------------- constants
INVALID_PAGE_ID == -1
NoFrame == -1

Data == 0 .. MaxData
ZeroData == 0

VARIABLES bpm, last, returned_ids, owed, owed_calls, tree, kv, conc

vars == <<bpm, last, returned_ids, owed, owed_calls, tree, kv, conc>>

\* ------------------------------------------------------ helper operators
Min(S) == CHOOSE x \in S : \A y \in S : x <= y

PopBack(q) == SubSeq(q, 1, Len(q) - 1)

Back(q) == q[Len(q)]

SeqToSet(q) == {q[i] : i \in 1 .. Len(q)}

\* A frame as the constructor leaves it (Page::Page: invalid id, no pins, clean, zeroed)
EmptyPage == [page_id |-> INVALID_PAGE_ID, pin_count |-> 0, is_dirty |-> FALSE, data |-> ZeroData]

\* ------------------------------------------------------- replacer (LRU-K)
NewReplacer(num_frames) ==
    [hist |-> [f \in 0 .. (num_frames - 1) |-> <<>>],
     evictable |-> [f \in 0 .. (num_frames - 1) |-> FALSE],
     clock |-> 0]

\* registers an access of frame f at the current logical timestamp; keeps the last K
RecordAccess(r, f) ==
    LET h == Append(r.hist[f], r.clock)
        kept == IF Len(h) > ReplacerK THEN SubSeq(h, 2, Len(h)) ELSE h
    IN [r EXCEPT !.hist[f] = kept, !.clock = @ + 1]

SetEvictable(r, f, b) ==
    IF r.hist[f] = <<>> THEN r ELSE [r EXCEPT !.evictable[f] = b]

ReplacerRemove(r, f) ==
    [r EXCEPT !.hist[f] = <<>>, !.evictable[f] = FALSE]

Candidates(r) == {f \in DOMAIN r.hist : r.hist[f] # <<>> /\ r.evictable[f]}

\* largest backward K-distance; fewer than K accesses is infinite; ties by the
\* earliest recorded access
Victim(r) ==
    LET c == Candidates(r)
        inf == {f \in c : Len(r.hist[f]) < ReplacerK}
        pool == IF inf # {} THEN inf ELSE c
        t == Min({r.hist[f][1] : f \in pool})
    IN IF c = {} THEN NoFrame
       ELSE CHOOSE f \in pool : r.hist[f][1] = t

Evict(r) ==
    LET f == Victim(r)
    IN IF f = NoFrame THEN [r |-> r, frame |-> NoFrame]
       ELSE [r |-> ReplacerRemove(r, f), frame |-> f]

\* ------------------------------------------------------------ page table
PageTableFind(pt, p) == pt[p]

PageTableInsert(pt, p, f) == [pt EXCEPT ![p] = f]

PageTableRemove(pt, p) ==
    IF p \in DOMAIN pt THEN [pt EXCEPT ![p] = NoFrame] ELSE pt

\* ---------------------------------------------------------- block device
WritePage(d, p, bytes) == [d EXCEPT ![p] = bytes]

ReadPage(d, p) == d[p]

\* ------------------------------------------------------------------ pool
\* the pool after construction: every frame on the free list, in index order
NewPool(pool_size, max_page_id) ==
    [pages |-> [f \in 0 .. (pool_size - 1) |-> EmptyPage],
     page_table |-> [p \in 0 .. max_page_id |-> NoFrame],
     free_list |-> [i \in 1 .. pool_size |-> i - 1],
     replacer |-> NewReplacer(pool_size),
     disk |-> [p \in 0 .. max_page_id |-> ZeroData],
     next_page_id |-> 0]

Frames == DOMAIN bpm.pages

PageIds == DOMAIN bpm.disk

\* the result of a pool call: the pool afterwards, the frame returned (NoFrame
\* for nullptr), the page id written to *page_id, and the boolean result
Result(s, f, p, b) == [s |-> s, frame |-> f, page_id |-> p, ok |-> b]

AllocatePage(s) == [s EXCEPT !.next_page_id = @ + 1]

\* EvictedFrame, leaving the victim's page-table entry in place
EvictedFrame_KeepEntry(s, e) ==
    LET target == s.pages[e.frame]
        s1 == [s EXCEPT !.replacer = e.r]
    IN IF target.is_dirty
       THEN [s1 EXCEPT !.disk = WritePage(@, target.page_id, target.data)]
       ELSE s1

\* the frame leaves the replacer as a victim: write back if dirty, drop the entry
EvictedFrame(s, e) ==
    LET target == s.pages[e.frame]
        s1 == [s EXCEPT !.replacer = e.r]
        s2 == IF target.is_dirty
              THEN [s1 EXCEPT !.disk = WritePage(@, target.page_id, target.data)]
              ELSE s1
    IN [s2 EXCEPT !.page_table = PageTableRemove(@, target.page_id)]

\* the frame receives page page_id with the given bytes, pinned once
InstallPage(s, target_frame, page_id, bytes) ==
    LET s1 == [s EXCEPT !.pages[target_frame] =
                  [page_id |-> page_id, is_dirty |-> FALSE, pin_count |-> 1, data |-> bytes]]
        s2 == [s1 EXCEPT !.page_table = PageTableInsert(@, page_id, target_frame)]
    IN [s2 EXCEPT !.replacer = SetEvictable(RecordAccess(@, target_frame), target_frame, FALSE)]

\* NewPgImp without ResetMemory: the frame keeps the bytes it held
NewPgImp_NoReset(s) ==
    LET new_page_id == s.next_page_id
        s0 == AllocatePage(s)
    IN IF s0.free_list # <<>>
       THEN LET target_frame == Back(s0.free_list)
                s1 == [s0 EXCEPT !.free_list = PopBack(@)]
            IN Result(InstallPage(s1, target_frame, new_page_id, s1.pages[target_frame].data),
                      target_frame, new_page_id, TRUE)
       ELSE LET e == Evict(s0.replacer)
            IN IF e.frame = NoFrame
               THEN Result(s0, NoFrame, new_page_id, FALSE)
               ELSE Result(InstallPage(EvictedFrame(s0, e), e.frame, new_page_id,
                                       s0.pages[e.frame].data),
                           e.frame, new_page_id, TRUE)

NewPgImp(s) ==
    LET new_page_id == s.next_page_id
        s0 == AllocatePage(s)
    IN IF s0.free_list # <<>>
       THEN LET target_frame == Back(s0.free_list)
                s1 == [s0 EXCEPT !.free_list = PopBack(@)]
            IN Result(InstallPage(s1, target_frame, new_page_id, ZeroData),
                      target_frame, new_page_id, TRUE)
       ELSE LET e == Evict(s0.replacer)
            IN IF e.frame = NoFrame
               THEN Result(s0, NoFrame, new_page_id, FALSE)
               ELSE Result(InstallPage(EvictedFrame(s0, e), e.frame, new_page_id, ZeroData),
                           e.frame, new_page_id, TRUE)

FetchHit(s, target_frame, page_id) ==
    LET s1 == [s EXCEPT !.pages[target_frame].pin_count = @ + 1]
    IN [s1 EXCEPT !.replacer = SetEvictable(RecordAccess(@, target_frame), target_frame, FALSE)]

\* FetchPgImp that gives up when the free list is empty, without asking the replacer
FetchPgImp_NoEvict(s, page_id) ==
    LET found == PageTableFind(s.page_table, page_id)
    IN IF found # NoFrame
       THEN Result(FetchHit(s, found, page_id), found, page_id, TRUE)
       ELSE IF s.free_list # <<>>
       THEN LET target_frame == Back(s.free_list)
                s1 == [s EXCEPT !.free_list = PopBack(@)]
            IN Result(InstallPage(s1, target_frame, page_id, ReadPage(s1.disk, page_id)),
                      target_frame, page_id, TRUE)
       ELSE Result(s, NoFrame, page_id, FALSE)

\* FetchPgImp without the early return when Evict fails: it goes on with frame 0
FetchPgImp_NoNullReturn(s, page_id) ==
    LET found == PageTableFind(s.page_table, page_id)
    IN IF found # NoFrame
       THEN Result(FetchHit(s, found, page_id), found, page_id, TRUE)
       ELSE IF s.free_list # <<>>
       THEN LET target_frame == Back(s.free_list)
                s1 == [s EXCEPT !.free_list = PopBack(@)]
            IN Result(InstallPage(s1, target_frame, page_id, ReadPage(s1.disk, page_id)),
                      target_frame, page_id, TRUE)
       ELSE LET ev == Evict(s.replacer)
                e == IF ev.frame = NoFrame THEN [r |-> s.replacer, frame |-> 0] ELSE ev
                s1 == EvictedFrame(s, e)
            IN Result(InstallPage(s1, e.frame, page_id, ReadPage(s1.disk, page_id)),
                      e.frame, page_id, TRUE)

FetchPgImp(s, page_id) ==
    LET found == PageTableFind(s.page_table, page_id)
    IN IF found # NoFrame
       THEN Result(FetchHit(s, found, page_id), found, page_id, TRUE)
       ELSE IF s.free_list # <<>>
       THEN LET target_frame == Back(s.free_list)
                s1 == [s EXCEPT !.free_list = PopBack(@)]
            IN Result(InstallPage(s1, target_frame, page_id, ReadPage(s1.disk, page_id)),
                      target_frame, page_id, TRUE)
       ELSE LET e == Evict(s.replacer)
            IN IF e.frame = NoFrame
               THEN Result(s, NoFrame, page_id, FALSE)
               ELSE LET s1 == EvictedFrame(s, e)
                    IN Result(InstallPage(s1, e.frame, page_id, ReadPage(s1.disk, page_id)),
                              e.frame, page_id, TRUE)

\* UnpinPgImp marking the frame evictable one pin too early
UnpinPgImp_EarlyEvictable(s, page_id, is_dirty) ==
    LET target_frame == PageTableFind(s.page_table, page_id)
    IN IF target_frame = NoFrame THEN Result(s, NoFrame, page_id, FALSE)
       ELSE IF s.pages[target_frame].pin_count <= 0 THEN Result(s, NoFrame, page_id, FALSE)
       ELSE LET s1 == [s EXCEPT !.pages[target_frame].pin_count = @ - 1]
                s2 == IF s1.pages[target_frame].pin_count <= 1
                      THEN [s1 EXCEPT !.replacer = SetEvictable(@, target_frame, TRUE)]
                      ELSE s1
                s3 == [s2 EXCEPT !.pages[target_frame].is_dirty = is_dirty \/ @]
            IN Result(s3, target_frame, page_id, TRUE)

\* UnpinPgImp without the pin_count <= 0 check
UnpinPgImp_NoGuard(s, page_id, is_dirty) ==
    LET target_frame == PageTableFind(s.page_table, page_id)
    IN IF target_frame = NoFrame THEN Result(s, NoFrame, page_id, FALSE)
       ELSE LET s1 == [s EXCEPT !.pages[target_frame].pin_count = @ - 1]
                s2 == IF s1.pages[target_frame].pin_count <= 0
                      THEN [s1 EXCEPT !.replacer = SetEvictable(@, target_frame, TRUE)]
                      ELSE s1
                s3 == [s2 EXCEPT !.pages[target_frame].is_dirty = is_dirty \/ @]
            IN Result(s3, target_frame, page_id, TRUE)

\* UnpinPgImp that reports success without decrementing a pin_count above 1
UnpinPgImp_NoDecrement(s, page_id, is_dirty) ==
    LET target_frame == PageTableFind(s.page_table, page_id)
    IN IF target_frame = NoFrame THEN Result(s, NoFrame, page_id, FALSE)
       ELSE IF s.pages[target_frame].pin_count <= 0 THEN Result(s, NoFrame, page_id, FALSE)
       ELSE LET s1 == IF s.pages[target_frame].pin_count > 1 THEN s
                      ELSE [s EXCEPT !.pages[target_frame].pin_count = @ - 1]
                s2 == IF s1.pages[target_frame].pin_count <= 0
                      THEN [s1 EXCEPT !.replacer = SetEvictable(@, target_frame, TRUE)]
                      ELSE s1
                s3 == [s2 EXCEPT !.pages[target_frame].is_dirty = is_dirty \/ @]
            IN Result(s3, target_frame, page_id, TRUE)

\* UnpinPgImp that stores is_dirty instead of or-ing it into the flag
UnpinPgImp_StoreDirty(s, page_id, is_dirty) ==
    LET target_frame == PageTableFind(s.page_table, page_id)
    IN IF target_frame = NoFrame THEN Result(s, NoFrame, page_id, FALSE)
       ELSE IF s.pages[target_frame].pin_count <= 0 THEN Result(s, NoFrame, page_id, FALSE)
       ELSE LET s1 == [s EXCEPT !.pages[target_frame].pin_count = @ - 1]
                s2 == IF s1.pages[target_frame].pin_count <= 0
                      THEN [s1 EXCEPT !.replacer = SetEvictable(@, target_frame, TRUE)]
                      ELSE s1
                s3 == [s2 EXCEPT !.pages[target_frame].is_dirty = is_dirty]
            IN Result(s3, target_frame, page_id, TRUE)

UnpinPgImp(s, page_id, is_dirty) ==
    LET target_frame == PageTableFind(s.page_table, page_id)
    IN IF target_frame = NoFrame THEN Result(s, NoFrame, page_id, FALSE)
       ELSE IF s.pages[target_frame].pin_count <= 0 THEN Result(s, NoFrame, page_id, FALSE)
       ELSE LET s1 == [s EXCEPT !.pages[target_frame].pin_count = @ - 1]
                s2 == IF s1.pages[target_frame].pin_count <= 0
                      THEN [s1 EXCEPT !.replacer = SetEvictable(@, target_frame, TRUE)]
                      ELSE s1
                s3 == [s2 EXCEPT !.pages[target_frame].is_dirty = is_dirty \/ @]
            IN Result(s3, target_frame, page_id, TRUE)

FlushPgImp(s, page_id) ==
    LET target_frame == PageTableFind(s.page_table, page_id)
    IN IF target_frame = NoFrame THEN Result(s, NoFrame, page_id, FALSE)
       ELSE LET target == s.pages[target_frame]
                s1 == [s EXCEPT !.disk = WritePage(@, target.page_id, target.data)]
                s2 == [s1 EXCEPT !.pages[target_frame].is_dirty = FALSE]
            IN Result(s2, target_frame, page_id, TRUE)

RECURSIVE FlushFrom(_, _)
FlushFrom(s, i) ==
    IF i >= Cardinality(DOMAIN s.pages) THEN s
    ELSE LET target == s.pages[i]
         IN IF target.page_id # INVALID_PAGE_ID /\ target.is_dirty
            THEN FlushFrom([s EXCEPT !.disk = WritePage(@, target.page_id, target.data),
                                     !.pages[i].is_dirty = FALSE], i + 1)
            ELSE FlushFrom(s, i + 1)

FlushAllPgsImp(s) == Result(FlushFrom(s, 0), NoFrame, INVALID_PAGE_ID, TRUE)

\* DeletePgImp that does not return the frame to the free list
DeletePgImp_NoFreeList(s, page_id) ==
    LET target_frame == PageTableFind(s.page_table, page_id)
    IN IF target_frame = NoFrame THEN Result(s, NoFrame, page_id, TRUE)
       ELSE IF s.pages[target_frame].pin_count > 0 THEN Result(s, target_frame, page_id, FALSE)
       ELSE LET s1 == [s EXCEPT !.pages[target_frame] = EmptyPage]
                s2 == [s1 EXCEPT !.page_table = PageTableRemove(@, page_id)]
                s3 == [s2 EXCEPT !.replacer = ReplacerRemove(@, target_frame)]
            IN Result(s3, target_frame, page_id, TRUE)

\* DeletePgImp that leaves the frame's record in the replacer
DeletePgImp_KeepReplacer(s, page_id) ==
    LET target_frame == PageTableFind(s.page_table, page_id)
    IN IF target_frame = NoFrame THEN Result(s, NoFrame, page_id, TRUE)
       ELSE IF s.pages[target_frame].pin_count > 0 THEN Result(s, target_frame, page_id, FALSE)
       ELSE LET s1 == [s EXCEPT !.pages[target_frame] = EmptyPage]
                s2 == [s1 EXCEPT !.page_table = PageTableRemove(@, page_id)]
                s4 == [s2 EXCEPT !.free_list = Append(@, target_frame)]
            IN Result(s4, target_frame, page_id, TRUE)

DeletePgImp(s, page_id) ==
    LET target_frame == PageTableFind(s.page_table, page_id)
    IN IF target_frame = NoFrame THEN Result(s, NoFrame, page_id, TRUE)
       ELSE IF s.pages[target_frame].pin_count > 0 THEN Result(s, target_frame, page_id, FALSE)
       ELSE LET s1 == [s EXCEPT !.pages[target_frame] = EmptyPage]
                s2 == [s1 EXCEPT !.page_table = PageTableRemove(@, page_id)]
                s3 == [s2 EXCEPT !.replacer = ReplacerRemove(@, target_frame)]
                s4 == [s3 EXCEPT !.free_list = Append(@, target_frame)]
            IN Result(s4, target_frame, page_id, TRUE)

\* a caller that holds a pin writes bytes through Page::GetData()
WriteData(s, f, bytes) == [s EXCEPT !.pages[f].data = bytes]

\* ------------------------------------------------------------- the calls
\* the last call: its name, the page id it was about (for NewPage the id it
\* returned), its is_dirty argument, whether it returned a page / true, the
\* page id it evicted from the frame it took from the replacer, and the page
\* id whose frame it freed
Call(op, p, d, b, v, x) ==
    [op |-> op, page |-> p, is_dirty |-> d, ok |-> b, evicted |-> v, deleted |-> x]

\* the page a NewPage / FetchPage call displaces: the call obtained its frame
\* from the replacer, not from the page table or the free list
Displaced(s, r) ==
    IF r.frame # NoFrame /\ s.page_table[r.page_id] = NoFrame /\ s.free_list = <<>>
    THEN s.pages[r.frame].page_id
    ELSE INVALID_PAGE_ID

\* the page ids callers hold: those the allocator has handed out
KnownIds(s) == {p \in DOMAIN s.disk : p < s.next_page_id}

\* no index has been constructed on the pool
NoTree == [root_page_id |-> INVALID_PAGE_ID, leaf_max_size |-> 0, internal_max_size |-> 0,
           crashed |-> FALSE, calls |-> 0]

\* no threads besides the caller
NoThreads == [latch_ |-> 0, thread |-> <<>>, serial |-> 0, calls |-> 0]

InitWith(pool) ==
    /\ bpm = pool
    /\ last = Call("none", INVALID_PAGE_ID, FALSE, FALSE, INVALID_PAGE_ID, INVALID_PAGE_ID)
    /\ returned_ids = {}
    /\ owed = [p \in DOMAIN pool.disk |-> 0]
    /\ owed_calls = [p \in DOMAIN pool.disk |-> 0]
    /\ tree = NoTree
    /\ kv = <<>>
    /\ conc = NoThreads

Init == InitWith(NewPool(PoolSize, MaxPageId))

InitData == InitWith(NewPool(DataPoolSize, DataMaxPageId))

NewPageWithin(max_clock) ==
    /\ bpm.next_page_id \in PageIds
    /\ LET r == NewPgImp(bpm)
       IN /\ r.s.replacer.clock <= max_clock
          /\ bpm' = r.s
          /\ last' = Call("NewPage", r.page_id, FALSE, r.ok, Displaced(bpm, r), INVALID_PAGE_ID)
          /\ returned_ids' = returned_ids \cup {r.page_id}

FetchPageWithin(max_clock) ==
    \E p \in KnownIds(bpm) :
         LET r == FetchPgImp(bpm, p)
         IN /\ r.s.replacer.clock <= max_clock
            /\ bpm' = r.s
            /\ last' = Call("FetchPage", p, FALSE, r.ok, Displaced(bpm, r), INVALID_PAGE_ID)
            /\ UNCHANGED returned_ids

NewPage == NewPageWithin(MaxClock)

FetchPage == FetchPageWithin(MaxClock)

DataNewPage == NewPageWithin(DataMaxClock)

DataFetchPage == FetchPageWithin(DataMaxClock)

UnpinPage ==
    \E p \in KnownIds(bpm), d \in BOOLEAN :
      LET r == UnpinPgImp(bpm, p, d)
      IN /\ bpm' = r.s
         /\ last' = Call("UnpinPage", p, d, r.ok, INVALID_PAGE_ID, INVALID_PAGE_ID)
         /\ UNCHANGED returned_ids

FlushPage ==
    \E p \in KnownIds(bpm) :
      LET r == FlushPgImp(bpm, p)
      IN /\ bpm' = r.s
         /\ last' = Call("FlushPage", p, FALSE, r.ok, INVALID_PAGE_ID, INVALID_PAGE_ID)
         /\ UNCHANGED returned_ids

FlushAllPages ==
    LET r == FlushAllPgsImp(bpm)
    IN /\ bpm' = r.s
       /\ last' = Call("FlushAllPages", INVALID_PAGE_ID, FALSE, r.ok, INVALID_PAGE_ID, INVALID_PAGE_ID)
       /\ UNCHANGED returned_ids

DeletePage ==
    \E p \in KnownIds(bpm) :
      LET r == DeletePgImp(bpm, p)
      IN /\ bpm' = r.s
         /\ last' = Call("DeletePage", p, FALSE, r.ok, INVALID_PAGE_ID,
                         IF r.ok /\ bpm.page_table[p] # NoFrame THEN p ELSE INVALID_PAGE_ID)
         /\ UNCHANGED returned_ids

WritePageData ==
    \E f \in Frames, bytes \in Data :
      /\ bpm.pages[f].pin_count > 0
      /\ bpm.pages[f].data # bytes
      /\ bpm' = WriteData(bpm, f, bytes)
      /\ last' = Call("WriteData", bpm.pages[f].page_id, FALSE, TRUE, INVALID_PAGE_ID,
                      INVALID_PAGE_ID)
      /\ UNCHANGED returned_ids

\* the pins a caller still holds after the call recorded in last': a page
\* returned by NewPage / FetchPage adds one; owed drops by one on an UnpinPage
\* that returned true, owed_calls on any UnpinPage or DeletePage call
PinsCounted ==
    LET p == last'.page
        pinned == last'.op \in {"NewPage", "FetchPage"} /\ last'.ok
    IN /\ owed' = IF pinned THEN [owed EXCEPT ![p] = @ + 1]
                  ELSE IF last'.op = "UnpinPage" /\ last'.ok THEN [owed EXCEPT ![p] = @ - 1]
                  ELSE owed
       /\ owed_calls' = IF pinned THEN [owed_calls EXCEPT ![p] = @ + 1]
                        ELSE IF last'.op \in {"UnpinPage", "DeletePage"} /\ owed_calls[p] > 0
                             THEN [owed_calls EXCEPT ![p] = @ - 1]
                        ELSE owed_calls

PinsNotCounted == UNCHANGED <<owed, owed_calls>>

\* the caller of these specifications is one thread that works on the pool directly
NoIndex == UNCHANGED <<tree, kv, conc>>

Next ==
    \/ NewPage /\ PinsCounted /\ NoIndex
    \/ FetchPage /\ PinsCounted /\ NoIndex
    \/ UnpinPage /\ PinsCounted /\ NoIndex
    \/ FlushPage /\ PinsCounted /\ NoIndex
    \/ FlushAllPages /\ PinsCounted /\ NoIndex
    \/ DeletePage /\ PinsCounted /\ NoIndex

Spec == Init /\ [][Next]_vars

NextData ==
    \/ DataNewPage /\ PinsNotCounted /\ NoIndex
    \/ DataFetchPage /\ PinsNotCounted /\ NoIndex
    \/ UnpinPage /\ PinsNotCounted /\ NoIndex
    \/ FlushPage /\ PinsNotCounted /\ NoIndex
    \/ FlushAllPages /\ PinsNotCounted /\ NoIndex
    \/ DeletePage /\ PinsNotCounted /\ NoIndex
    \/ WritePageData /\ PinsNotCounted /\ NoIndex

DataSpec == InitData /\ [][NextData]_vars

\* ----------------------------------------------------- state observers
FreeFrames(s) == SeqToSet(s.free_list)

ResidentIds(s) == {p \in DOMAIN s.page_table : s.page_table[p] # NoFrame}

MappedFrames(s) == {s.page_table[p] : p \in ResidentIds(s)}

FramesHolding(s, p) == {f \in DOMAIN s.pages : s.pages[f].page_id = p}

AllPinned(s) == \A f \in DOMAIN s.pages : s.pages[f].pin_count > 0

NoFrameAvailable(s) == s.free_list = <<>> /\ Candidates(s.replacer) = {}

\* ---------------------------------------------------------------- claims

\* C1: in every reachable pool state the number of frames on the free list
\* plus the number of page-table entries equals the pool size; free list and
\* mapped frames are disjoint and together cover all frames.
FrameAccounting ==
    /\ Len(bpm.free_list) + Cardinality(ResidentIds(bpm)) = Cardinality(Frames)
    /\ FreeFrames(bpm) \cap MappedFrames(bpm) = {}
    /\ FreeFrames(bpm) \cup MappedFrames(bpm) = Frames

\* a page was deleted after some frame had been reused, and pages remain resident
FrameAccountingWitness ==
    /\ last.op = "DeletePage" /\ last.deleted # INVALID_PAGE_ID
    /\ bpm.replacer.clock > Cardinality(Frames)
    /\ ResidentIds(bpm) # {}

\* C2: a frame whose page is pinned is not on the free list and is marked
\* non-evictable, and no NewPage or FetchPage call changes the page held by a
\* frame that was pinned when the call was made.
PinnedNeverReused ==
    /\ [](\A f \in Frames : bpm.pages[f].pin_count > 0 =>
             /\ f \notin FreeFrames(bpm)
             /\ ~bpm.replacer.evictable[f]
             /\ f \notin Candidates(bpm.replacer))
    /\ [][last'.op \in {"NewPage", "FetchPage"} =>
             \A f \in Frames : bpm'.pages[f].page_id # bpm.pages[f].page_id =>
                                  bpm.pages[f].pin_count = 0]_vars

\* a call evicted a page while another page was pinned
PinnedNeverReusedWitness ==
    /\ last.evicted # INVALID_PAGE_ID
    /\ \E f \in Frames : bpm.pages[f].pin_count > 0 /\ bpm.pages[f].page_id # last.page

\* C3: every page id is held by at most one frame, every frame that holds a
\* page has the page-table entry of that page pointing to it, and every
\* page-table entry points to a frame holding that page (the entries of
\* evicted and deleted pages are gone).
NoDoubleResidency ==
    /\ \A p \in PageIds : Cardinality(FramesHolding(bpm, p)) <= 1
    /\ \A f \in Frames : bpm.pages[f].page_id # INVALID_PAGE_ID =>
                            bpm.page_table[bpm.pages[f].page_id] = f
    /\ \A p \in ResidentIds(bpm) : bpm.pages[bpm.page_table[p]].page_id = p

\* a call evicted a page from a full pool and brought another page into its frame
NoDoubleResidencyWitness ==
    /\ last.evicted # INVALID_PAGE_ID
    /\ last.evicted \notin ResidentIds(bpm)
    /\ Cardinality(ResidentIds(bpm)) = Cardinality(Frames)

\* C4: when NewPage or FetchPage evicts a dirty page its bytes are written to
\* the device under the old page id before the frame is reused; and the device
\* content of any evicted page equals its last in-memory content.
DirtyBeforeEvict ==
    [][last'.evicted # INVALID_PAGE_ID =>
          LET f == bpm'.page_table[last'.page]
          IN /\ bpm.pages[f].is_dirty => bpm'.disk[last'.evicted] = bpm.pages[f].data
             /\ bpm'.disk[last'.evicted] = bpm.pages[f].data]_vars

\* C5 as stated: FetchPage returns null exactly when no frame is free and no
\* frame is evictable at the time of the call.
FetchNullIffNoFrame ==
    [][last'.op = "FetchPage" => (~last'.ok <=> NoFrameAvailable(bpm))]_vars

\* C5 amended: FetchPage(p) returns null exactly when p is not resident and no
\* frame is free and no frame is evictable at the time of the call.
FetchNullIffMissAndNoFrame ==
    [][last'.op = "FetchPage" =>
          (~last'.ok <=> (bpm.page_table[last'.page] = NoFrame /\ NoFrameAvailable(bpm)))]_vars

\* a FetchPage of a non-resident page returned null with every frame pinned
FetchNullWitness ==
    /\ last.op = "FetchPage" /\ ~last.ok
    /\ AllPinned(bpm)
    /\ bpm.page_table[last.page] = NoFrame

\* C6: with every frame pinned, FetchPage of a non-resident page returns null
\* and leaves the whole pool (page table, free list, frames, replacer, device)
\* unchanged.
FetchExhaustedNoChange ==
    [][(last'.op = "FetchPage" /\ AllPinned(bpm) /\ bpm.page_table[last'.page] = NoFrame) =>
          (~last'.ok /\ bpm' = bpm)]_vars

\* a FetchPage returned null while every frame was pinned and some frame held
\* written, dirty bytes
FetchExhaustedWitness ==
    /\ last.op = "FetchPage" /\ ~last.ok
    /\ AllPinned(bpm)
    /\ \E f \in Frames : bpm.pages[f].data # ZeroData
    /\ \E f \in Frames : bpm.pages[f].is_dirty

\* C7: UnpinPage on a page that is not resident or has pin_count 0, and
\* DeletePage on a resident pinned page, return false and leave the pool
\* unchanged; no pin_count is ever negative.
RejectedCallsNoChange ==
    /\ [](\A f \in Frames : bpm.pages[f].pin_count >= 0)
    /\ [][LET p == last'.page
              f == bpm.page_table[p]
          IN /\ (last'.op = "UnpinPage" /\ (f = NoFrame \/ bpm.pages[f].pin_count = 0)) =>
                    (~last'.ok /\ bpm' = bpm)
             /\ (last'.op = "DeletePage" /\ f # NoFrame /\ bpm.pages[f].pin_count > 0) =>
                    (~last'.ok /\ bpm' = bpm)]_vars

\* an UnpinPage was rejected on a resident page whose pin_count is 0
RejectedCallsWitness ==
    /\ last.op = "UnpinPage" /\ ~last.ok
    /\ bpm.page_table[last.page] # NoFrame
    /\ bpm.pages[bpm.page_table[last.page]].pin_count = 0

\* C8: DeletePage(p) on a resident page with pin_count 0 returns true, removes
\* p's page-table entry, puts its frame on the free list with page id INVALID,
\* pin_count 0, dirty false, and leaves no replacer record for the frame;
\* DeletePage(p) on a non-resident page returns true and changes nothing.
DeleteFreesFrame ==
    [][last'.op = "DeletePage" =>
          LET p == last'.page
              f == bpm.page_table[p]
          IN /\ (f # NoFrame /\ bpm.pages[f].pin_count = 0) =>
                    /\ last'.ok
                    /\ bpm'.page_table[p] = NoFrame
                    /\ f \in FreeFrames(bpm')
                    /\ bpm'.pages[f].page_id = INVALID_PAGE_ID
                    /\ bpm'.pages[f].pin_count = 0
                    /\ ~bpm'.pages[f].is_dirty
                    /\ bpm'.replacer.hist[f] = <<>>
                    /\ ~bpm'.replacer.evictable[f]
             /\ f = NoFrame => (last'.ok /\ bpm' = bpm)]_vars

\* a DeletePage freed the frame of a resident page
DeleteFreesFrameWitness ==
    /\ last.op = "DeletePage" /\ last.ok
    /\ last.deleted = last.page
    /\ bpm.free_list # <<>>

\* C9: a successful NewPage returns a page id greater than every id an earlier
\* NewPage returned, and the page is then held by exactly one frame with
\* pin_count 1, dirty false, zeroed bytes, a page-table entry, non-evictable.
NewPageFresh ==
    [][last'.op = "NewPage" =>
          /\ \A q \in returned_ids : q < last'.page
          /\ last'.ok =>
                LET p == last'.page
                    f == bpm'.page_table[p]
                IN /\ f # NoFrame
                   /\ FramesHolding(bpm', p) = {f}
                   /\ bpm'.pages[f].pin_count = 1
                   /\ ~bpm'.pages[f].is_dirty
                   /\ bpm'.pages[f].data = ZeroData
                   /\ ~bpm'.replacer.evictable[f]
                   /\ f \notin Candidates(bpm'.replacer)]_vars

\* a NewPage succeeded by evicting a page, after earlier NewPage calls
NewPageFreshWitness ==
    /\ last.op = "NewPage" /\ last.ok
    /\ last.evicted # INVALID_PAGE_ID
    /\ returned_ids # {last.page}

\* C10 as stated: when every successful FetchPage/NewPage of a page has been
\* matched by one later UnpinPage or DeletePage call on that page, every frame
\* has pin_count 0.
PinDisciplineUnpinOrDelete ==
    (\A p \in PageIds : owed_calls[p] = 0) => \A f \in Frames : bpm.pages[f].pin_count = 0

\* C10 amended: when every successful FetchPage/NewPage of a page has been
\* matched by one successful UnpinPage on that page, every frame has
\* pin_count 0.
PinDisciplineUnpin ==
    (\A p \in PageIds : owed[p] = 0) => \A f \in Frames : bpm.pages[f].pin_count = 0

\* the pins of several calls, two of them on one page, have all been released
PinDisciplineWitness ==
    /\ last.op = "UnpinPage" /\ last.ok
    /\ \A p \in PageIds : owed[p] = 0
    /\ bpm.replacer.clock >= 3
    /\ \E f \in Frames : Len(bpm.replacer.hist[f]) >= 2
\* ======================================================= B+ tree index
\* ---------------------------------------------------------------- bounds
\* Both specifications of the index run on a pool of TreePoolSize frames over
\* page ids up to TreeMaxPageId, with leaf_max_size drawn from
\* MinLeafSize .. MaxLeafSize and internal_max_size from
\* MinInternalSize .. MaxInternalSize; a call that would leave more than
\* MaxLeaked pins behind is not made.
\* TreeSpec: at most MaxCalls calls of Insert and Remove over keys 1 .. MaxKey
\* and values 1 .. MaxValue.
\* MapSpec: at most MapMaxCalls calls of Insert, Remove, GetValue and the
\* pool's FlushAllPages over keys 1 .. MapMaxKey and values 1 .. MapMaxValue.
TreePoolSize == 6
TreeMaxPageId == 8
MinLeafSize == 2
MaxLeafSize == 3
MinInternalSize == 3
MaxInternalSize == 3
MaxLeaked == 1
MaxKey == 4
MaxValue == 1
MaxCalls == 5
MapMaxKey == 2
MapMaxValue == 2
MapMaxCalls == 4

NoValue == 0

\* ------------------------------------------------------------ tree pages
INVALID_INDEX_PAGE == 0
LEAF_PAGE == 1
INTERNAL_PAGE == 2
HEADER_PAGE_ID == 0

\* a page of zero bytes seen through the tree page layout (section 6): every
\* header field 0, no entries, no header record
ZeroPage ==
    [page_type |-> INVALID_INDEX_PAGE, max_size |-> 0, parent_page_id |-> 0, page_id |-> 0,
     next_page_id |-> 0, prev_page_id |-> 0, array |-> <<>>, record |-> 0]

\* reinterpret_cast of a frame's bytes to a tree page
AsTreePage(bytes) == IF ToString(bytes) = ToString(ZeroData) THEN ZeroPage ELSE bytes

MappingType(k, v) == [key |-> k, value |-> v]

IsLeafPage(n) == n.page_type = LEAF_PAGE

IsRootPage(n) == n.parent_page_id = INVALID_PAGE_ID

\* number of entries of a leaf, number of keys of an internal page (slot 0
\* holds the leading child pointer and no key)
GetSize(n) ==
    IF IsLeafPage(n) THEN Len(n.array)
    ELSE IF n.array = <<>> THEN 0 ELSE Len(n.array) - 1

\* NeedSplit that waits for a page above its maximum
NeedSplit_AboveMax(n) == GetSize(n) > n.max_size

NeedSplit(n) == GetSize(n) = n.max_size

CeilHalf(m) == (m + 1) \div 2

\* an internal page is below its minimum with fewer than ceil(max/2) children
InternalNeedRedsb(n) == GetSize(n) + 1 < CeilHalf(n.max_size)

\* NeedRedsb that sends every page a Remove took an entry from to a sibling
NeedRedsb_Always(n) == TRUE

NeedRedsb(n) ==
    IF IsLeafPage(n) THEN GetSize(n) < n.max_size \div 2
    ELSE InternalNeedRedsb(n)

IsLast(n) == n.next_page_id = INVALID_PAGE_ID

IsFirst(n) == n.prev_page_id = INVALID_PAGE_ID

\* slot index (from 0, as in the code); a slot never written reads as zero bytes
KeyAt(n, index) == IF index + 1 \in DOMAIN n.array THEN n.array[index + 1].key ELSE 0

ValueAt(n, index) == IF index + 1 \in DOMAIN n.array THEN n.array[index + 1].value ELSE 0

RemoveSlot(arr, i) == SubSeq(arr, 1, i - 1) \o SubSeq(arr, i + 1, Len(arr))

InsertSlot(arr, i, slot) == SubSeq(arr, 1, i - 1) \o <<slot>> \o SubSeq(arr, i, Len(arr))

LeafInit(page_id, parent_id, max_size) ==
    [page_type |-> LEAF_PAGE, max_size |-> max_size, parent_page_id |-> parent_id,
     page_id |-> page_id, next_page_id |-> INVALID_PAGE_ID, prev_page_id |-> INVALID_PAGE_ID,
     array |-> <<>>, record |-> 0]

InternalInit(page_id, parent_id, max_size) ==
    [page_type |-> INTERNAL_PAGE, max_size |-> max_size, parent_page_id |-> parent_id,
     page_id |-> page_id, next_page_id |-> 0, prev_page_id |-> 0,
     array |-> <<>>, record |-> 0]

\* position of key in a leaf, -1 when absent
Search(n, key) ==
    IF \E i \in DOMAIN n.array : n.array[i].key = key
    THEN (CHOOSE i \in DOMAIN n.array : n.array[i].key = key) - 1
    ELSE -1

\* leaf Insert: false on a duplicate key, else the entry goes to its sorted place
LeafInsert(n, key, value) ==
    IF Search(n, key) # -1 THEN [ok |-> FALSE, page |-> n]
    ELSE LET pos == Cardinality({i \in DOMAIN n.array : n.array[i].key < key})
         IN [ok |-> TRUE,
             page |-> [n EXCEPT !.array = InsertSlot(@, pos + 1, MappingType(key, value))]]

\* leaf Remove: false when the key is absent; need_update when slot 0 was removed
LeafRemove(n, key) ==
    LET index == Search(n, key)
    IN IF index = -1 THEN [ok |-> FALSE, page |-> n, need_update |-> FALSE]
       ELSE [ok |-> TRUE, page |-> [n EXCEPT !.array = RemoveSlot(@, index + 1)],
             need_update |-> index = 0]

\* a page gives an entry away only while it holds more than ceil(max/2)
CanSpare(n) ==
    IF IsLeafPage(n) THEN GetSize(n) > CeilHalf(n.max_size)
    ELSE GetSize(n) + 1 > CeilHalf(n.max_size)

StealFirst(n) ==
    IF ~CanSpare(n) THEN [ok |-> FALSE, page |-> n, value |-> MappingType(0, 0)]
    ELSE IF IsLeafPage(n)
    THEN [ok |-> TRUE, page |-> [n EXCEPT !.array = Tail(@)], value |-> n.array[1]]
    ELSE [ok |-> TRUE,
          page |-> [n EXCEPT !.array = <<MappingType(0, @[2].value)>> \o Tail(Tail(@))],
          value |-> MappingType(0, n.array[1].value)]

StealLast(n) ==
    IF ~CanSpare(n) THEN [ok |-> FALSE, page |-> n, value |-> MappingType(0, 0)]
    ELSE [ok |-> TRUE, page |-> [n EXCEPT !.array = SubSeq(@, 1, Len(@) - 1)],
          value |-> n.array[Len(n.array)]]

InsertFirst(n, value) ==
    IF IsLeafPage(n) THEN [n EXCEPT !.array = <<value>> \o @]
    ELSE [n EXCEPT !.array = <<MappingType(0, value.value)>> \o @]

InsertLast(n, value) == [n EXCEPT !.array = Append(@, value)]

\* the entries of rest_leaf go in front of / behind the entries of the page
MergeFromLeft(n, rest_leaf) == [n EXCEPT !.array = rest_leaf.array \o @]

MergeFromRight(n, rest_leaf) == [n EXCEPT !.array = @ \o rest_leaf.array]

SetFirstPoint(n, page_id) ==
    IF n.array = <<>> THEN [n EXCEPT !.array = <<MappingType(0, page_id)>>]
    ELSE [n EXCEPT !.array[1] = MappingType(0, page_id)]

\* internal Insert: the (key, child) pair goes to its sorted place behind slot 0
InternalInsert(n, key, page_id) ==
    LET arr == IF n.array = <<>> THEN <<MappingType(0, 0)>> ELSE n.array
        pos == Cardinality({i \in DOMAIN arr : i > 1 /\ arr[i].key < key})
    IN [n EXCEPT !.array = InsertSlot(arr, pos + 2, MappingType(key, page_id))]

\* slot of an internal page whose child pointer is page_id, -1 when there is none
SearchPosition(n, page_id) ==
    IF \E i \in DOMAIN n.array : n.array[i].value = page_id
    THEN Min({i \in DOMAIN n.array : n.array[i].value = page_id}) - 1
    ELSE -1

\* internal Remove(index): the slot goes, the slots behind it move up; the key
\* of the slot that becomes slot 0 is unused from then on
InternalRemove(n, index) ==
    IF index + 1 \notin DOMAIN n.array THEN n
    ELSE LET arr == RemoveSlot(n.array, index + 1)
         IN IF index = 0 /\ arr # <<>>
            THEN [n EXCEPT !.array = <<MappingType(0, arr[1].value)>> \o Tail(arr)]
            ELSE [n EXCEPT !.array = arr]

\* SetKeyAt on slot 0 changes a key nothing reads; on a slot outside the page's
\* entries it changes no entry
SetKeyAt(n, index, key) ==
    IF index >= 1 /\ index + 1 \in DOMAIN n.array
    THEN [n EXCEPT !.array[index + 1].key = key]
    ELSE n

UpdateRecord(page, root_id) == [page EXCEPT !.record = root_id]

\* ------------------------------------------------ the index on the pool
TreePageIds == INVALID_PAGE_ID .. TreeMaxPageId

\* the pool the index is constructed on; its page table and device answer for
\* INVALID_PAGE_ID too, because UpdateParentKey passes it to FetchPage
NewTreePool(pool_size) ==
    LET s == NewPool(pool_size, TreeMaxPageId)
    IN [s EXCEPT !.page_table = [p \in TreePageIds |-> NoFrame],
                 !.disk = [p \in TreePageIds |-> ZeroData]]

\* the element of a set of one element. A result that the statements after it
\* use more than once is named as the element of the set that holds just it:
\* The({e(x) : x \in {r}}) is e of r.
The(S) == CHOOSE x \in S : TRUE

\* the collaborator creates the header page before the index and releases it
WithHeaderPage(s) == The({UnpinPgImp(r.s, r.page_id, TRUE).s : r \in {NewPgImp(s)}})

\* LRU-K looks at the order of the timestamps only: the replacer with its
\* timestamps replaced by their ranks
Compact(r) ==
    LET stamps == UNION {SeqToSet(r.hist[f]) : f \in DOMAIN r.hist}
        rank(t) == Cardinality({u \in stamps : u < t})
    IN [r EXCEPT !.hist = [f \in DOMAIN r.hist |-> [i \in DOMAIN r.hist[f] |-> rank(r.hist[f][i])]],
                 !.clock = Cardinality(stamps)]

\* An operation of the index in progress: the pool, root_page_id_, the page the
\* last FetchPage or NewPage handed back, the pages whose contents the operation
\* wrote, the value it returns, whether it dereferenced a null page, whether
\* it asked for a page id beyond TreeMaxPageId, whether FetchPage or NewPage
\* returned nullptr, and the pairs of leaves StealSibling and Merge brought
\* together (rest leaf, the leaf it stole from or merged into), and whether
\* FindLeafPage fetched a child while the frame of its parent had pin_count 0,
\* and whether it stored through a node pointer into a frame with pin_count 0.
\* An operation is written as the code's statements applied one to the result
\* of the other.
Running(s, root_page_id) ==
    [s |-> s, root_page_id |-> root_page_id, frame |-> NoFrame, page_id |-> INVALID_PAGE_ID,
     modified |-> {}, ok |-> FALSE, value |-> NoValue, crashed |-> FALSE, exhausted |-> FALSE,
     null_page |-> FALSE, partners |-> {}, unheld |-> FALSE, unpinned_write |-> FALSE]

\* dereferencing nullptr, or interpreting a page that is not a node as a node
Crash(c) == [c EXCEPT !.crashed = TRUE, !.frame = 0]

Returning(c, ok, value) == [c EXCEPT !.ok = ok, !.value = value]

\* the node in a frame the operation holds
NodeAt(c, f) == AsTreePage(c.s.pages[f].data)

\* a store through a node pointer
SetNode(c, f, n) ==
    IF c.crashed THEN c
    ELSE [c EXCEPT !.s = WriteData(@, f, n),
                   !.modified = IF AsTreePage(c.s.pages[f].data) = n THEN @
                                ELSE @ \cup {c.s.pages[f].page_id},
                   !.unpinned_write = @ \/ c.s.pages[f].pin_count = 0]

\* buffer_pool_manager_->FetchPage(page_id)->GetData()
GetPage(c, page_id) ==
    IF c.crashed THEN c
    ELSE IF page_id \notin DOMAIN c.s.page_table THEN Crash(c)
    ELSE The({IF r.ok THEN [c EXCEPT !.s = r.s, !.frame = r.frame, !.page_id = page_id]
              ELSE Crash([c EXCEPT !.s = r.s, !.null_page = TRUE])
              : r \in {FetchPgImp(c.s, page_id)}})

GetInternalPage(c, internal_id) == GetPage(c, internal_id)

GetLeafPage(c, leaf_id) == GetPage(c, leaf_id)

\* buffer_pool_manager_->NewPage(&page_id), the result used without a null check
TreeNewPage(c) ==
    IF c.crashed THEN c
    ELSE IF c.s.next_page_id \notin DOMAIN c.s.page_table
    THEN [Crash(c) EXCEPT !.exhausted = TRUE]
    ELSE The({IF r.ok THEN [c EXCEPT !.s = r.s, !.frame = r.frame, !.page_id = r.page_id]
              ELSE Crash([c EXCEPT !.s = r.s, !.null_page = TRUE])
              : r \in {NewPgImp(c.s)}})

TreeUnpinPage(c, page_id, is_dirty) ==
    IF c.crashed THEN c
    ELSE IF page_id \notin DOMAIN c.s.page_table THEN Crash(c)
    ELSE [c EXCEPT !.s = UnpinPgImp(@, page_id, is_dirty).s]

TreeDeletePage(c, page_id) ==
    IF c.crashed THEN c
    ELSE IF page_id \notin DOMAIN c.s.page_table THEN Crash(c)
    ELSE [c EXCEPT !.s = DeletePgImp(@, page_id).s]

\* UpdateRootPageId that leaves the header page alone
UpdateRootPageId_Skip(c) == c

UpdateRootPageId(c) ==
    The({TreeUnpinPage(SetNode(header, header.frame,
                               UpdateRecord(NodeAt(header, header.frame), c.root_page_id)),
                       HEADER_PAGE_ID, TRUE)
         : header \in {GetPage(c, HEADER_PAGE_ID)}})

IsEmpty(c) == c.root_page_id = INVALID_PAGE_ID

\* ---------------------------------------------------------- FindLeafPage
\* ChildFor comparing with >= : a key equal to a separator goes left of it
ChildFor_GreaterOrEqual(n, key) ==
    LET greater == {i \in 1 .. GetSize(n) : KeyAt(n, i) >= key}
    IN IF greater = {} THEN ValueAt(n, GetSize(n)) ELSE ValueAt(n, Min(greater) - 1)

\* the child an internal node guides key to: the pointer before the first key
\* greater than key, the last pointer when there is none
ChildFor(n, key) ==
    LET greater == {i \in 1 .. GetSize(n) : KeyAt(n, i) > key}
    IN IF greater = {} THEN ValueAt(n, GetSize(n)) ELSE ValueAt(n, Min(greater) - 1)

\* the loop of FindLeafPage; a walk longer than the number of pages never ends
RECURSIVE Descend(_, _, _)
Descend(c, key, steps) ==
    IF c.crashed THEN c
    ELSE LET curr_node_page == NodeAt(c, c.frame)
         IN IF IsLeafPage(curr_node_page) THEN c
            ELSE IF curr_node_page.page_type # INTERNAL_PAGE \/ steps = 0 THEN Crash(c)
            \* lines 64-65: UnpinPage of the node, then GetPage of the child
            ELSE The({Descend(GetPage([c1 EXCEPT !.unheld =
                                          @ \/ c1.s.pages[c.frame].pin_count = 0],
                                      ChildFor(curr_node_page, key)),
                              key, steps - 1)
                      : c1 \in {TreeUnpinPage(c, curr_node_page.page_id, FALSE)}})

FindLeafPage(c, key) == Descend(GetPage(c, c.root_page_id), key, TreeMaxPageId + 1)

GetValue(c, key) ==
    IF IsEmpty(c) THEN Returning(c, FALSE, NoValue)
    ELSE The({LET leaf_node_page == NodeAt(c1, c1.frame)
                  i == Search(leaf_node_page, key)
              IN Returning(TreeUnpinPage(c1, leaf_node_page.page_id, FALSE),
                           i >= 0, IF i >= 0 THEN ValueAt(leaf_node_page, i) ELSE NoValue)
              : c1 \in {FindLeafPage(c, key)}})

\* ---------------------------------------------------------------- Insert
\* UpdateParentId that leaves the child's parent id as it was
UpdateParentId_Skip(c, page_id, p_page_id) ==
    TreeUnpinPage(GetPage(c, page_id), page_id, TRUE)

UpdateParentId(c, page_id, p_page_id) ==
    LET SetParentPageId(c1) ==
            SetNode(c1, c1.frame, [NodeAt(c1, c1.frame) EXCEPT !.parent_page_id = p_page_id])
    IN TreeUnpinPage(SetParentPageId(GetPage(c, page_id)), page_id, TRUE)

\* UpdateParentId for each page id of a sequence, in order
RECURSIVE UpdateParentIds(_, _, _)
UpdateParentIds(c, page_ids, p_page_id) ==
    IF page_ids = <<>> THEN c
    ELSE UpdateParentIds(UpdateParentId(c, Head(page_ids), p_page_id), Tail(page_ids), p_page_id)

\* the new root a split creates above over_node; the new root is the page the
\* operation holds afterwards
NewRootAbove(c, over_frame, internal_max_size) ==
    LET over_node_id == NodeAt(c, over_frame).page_id
        SetParentPageId(d, p_page_id) ==
            SetNode(d, over_frame, [NodeAt(d, over_frame) EXCEPT !.parent_page_id = p_page_id])
    IN The({The({[SetParentPageId(
                     SetNode(c2, c1.frame,
                             SetFirstPoint(InternalInit(c2.root_page_id, INVALID_PAGE_ID,
                                                        internal_max_size),
                                           over_node_id)),
                     c2.root_page_id)
                  EXCEPT !.frame = c1.frame]
                 : c2 \in {UpdateRootPageId([c1 EXCEPT !.root_page_id = c1.page_id])}})
            : c1 \in {TreeNewPage(c)}})

RECURSIVE SplitInternal(_, _, _, _)
SplitInternal(c, over_frame, new_frame, internal_max_size) ==
    IF c.crashed THEN c
    ELSE
    LET over_node == NodeAt(c, over_frame)
        size == GetSize(over_node)
        mid_index == over_node.max_size \div 2 + 1
        mid_key == KeyAt(over_node, mid_index)
        mid_page_id == ValueAt(over_node, mid_index)
        new_internal_id == NodeAt(c, new_frame).page_id
        left_arr == over_node.array
        moved == SubSeq(left_arr, mid_index + 2, size + 1)
        SetArray(d, f, arr) == SetNode(d, f, [NodeAt(d, f) EXCEPT !.array = arr])
        ReleaseParent(c9, parent_frame) ==
            IF c9.crashed THEN c9
            ELSE TreeUnpinPage(c9, NodeAt(c9, parent_frame).page_id, TRUE)
    IN The({
         LET parent_frame == c2.frame
         IN The({
              \* lines 319-327: the parent is split when it is full, and released
              ReleaseParent(
                 IF NeedSplit(NodeAt(c8, parent_frame))
                 THEN The({SplitInternal(
                              SetNode(n1, n1.frame,
                                      InternalInit(n1.page_id, INVALID_PAGE_ID, internal_max_size)),
                              parent_frame, n1.frame, internal_max_size)
                           : n1 \in {TreeNewPage(c8)}})
                 ELSE c8,
                 parent_frame)
              \* lines 291-317: mid_key goes up into the parent, the children behind
              \* mid_index move to the new page
              : c8 \in {TreeUnpinPage(
                           SetArray(
                              SetArray(
                                 UpdateParentId(
                                    UpdateParentIds(
                                       SetNode(c2, parent_frame,
                                               InternalInsert(NodeAt(c2, parent_frame),
                                                              mid_key, new_internal_id)),
                                       [i \in DOMAIN moved |-> moved[i].value], new_internal_id),
                                    mid_page_id, new_internal_id),
                                 new_frame, <<MappingType(0, mid_page_id)>> \o moved),
                              over_frame, SubSeq(left_arr, 1, mid_index)),
                           new_internal_id, TRUE)}})
         \* lines 273-289: the parent; a root that is split gets a new root above it
         : c2 \in {IF ~IsRootPage(over_node)
                   THEN GetInternalPage(
                           SetNode(c, new_frame,
                                   [NodeAt(c, new_frame) EXCEPT
                                       !.parent_page_id = over_node.parent_page_id]),
                           over_node.parent_page_id)
                   ELSE The({SetNode(r1, new_frame,
                                     InternalInit(new_internal_id, r1.root_page_id,
                                                  internal_max_size))
                             : r1 \in {NewRootAbove(c, over_frame, internal_max_size)}})}})

\* LinkNewLeaf that leaves the prev_page_id of the new leaf as Init set it
LinkNewLeaf_NoOwnPrev(c, over_frame, new_leaf) ==
    LET over_node == NodeAt(c, over_frame)
        new_leaf_id == NodeAt(c, new_leaf).page_id
        next_page_id == over_node.next_page_id
        SetPrevPageId(l1) ==
            SetNode(l1, l1.frame, [NodeAt(l1, l1.frame) EXCEPT !.prev_page_id = new_leaf_id])
        Behind(c1) ==
            IF ~IsLast(over_node)
            THEN TreeUnpinPage(SetPrevPageId(GetLeafPage(c1, next_page_id)), next_page_id, TRUE)
            ELSE c1
    IN SetNode(Behind(SetNode(c, new_leaf,
                              [NodeAt(c, new_leaf) EXCEPT !.next_page_id = next_page_id])),
               over_frame, [over_node EXCEPT !.next_page_id = new_leaf_id])

\* LinkNewLeaf that forgets over_node->SetNextPageId(new_leaf_id)
LinkNewLeaf_NoNext(c, over_frame, new_leaf) ==
    LET over_node == NodeAt(c, over_frame)
        new_leaf_id == NodeAt(c, new_leaf).page_id
        next_page_id == over_node.next_page_id
        SetPrevPageId(l1) ==
            SetNode(l1, l1.frame, [NodeAt(l1, l1.frame) EXCEPT !.prev_page_id = new_leaf_id])
        Behind(c1) ==
            IF ~IsLast(over_node)
            THEN TreeUnpinPage(SetPrevPageId(GetLeafPage(c1, next_page_id)), next_page_id, TRUE)
            ELSE c1
    IN Behind(SetNode(c, new_leaf,
                      [NodeAt(c, new_leaf) EXCEPT !.next_page_id = next_page_id,
                                                  !.prev_page_id = over_node.page_id]))

\* LinkNewLeaf that leaves the prev_page_id of the leaf behind over_node alone
LinkNewLeaf_NoPrev(c, over_frame, new_leaf) ==
    LET over_node == NodeAt(c, over_frame)
        new_leaf_id == NodeAt(c, new_leaf).page_id
    IN SetNode(SetNode(c, new_leaf,
                       [NodeAt(c, new_leaf) EXCEPT !.next_page_id = over_node.next_page_id,
                                                   !.prev_page_id = over_node.page_id]),
               over_frame, [over_node EXCEPT !.next_page_id = new_leaf_id])

\* SplitLeaf puts the new leaf into the leaf list behind over_node
LinkNewLeaf(c, over_frame, new_leaf) ==
    LET over_node == NodeAt(c, over_frame)
        new_leaf_id == NodeAt(c, new_leaf).page_id
        next_page_id == over_node.next_page_id
        \* line 232: over_node->SetNextPageId(new_leaf_id)
        SetNextPageId(c2) ==
            SetNode(c2, over_frame, [NodeAt(c2, over_frame) EXCEPT !.next_page_id = new_leaf_id])
        \* lines 227-231: the leaf behind over_node gets the new leaf as its predecessor
        SetPrevPageId(l1) ==
            SetNode(l1, l1.frame, [NodeAt(l1, l1.frame) EXCEPT !.prev_page_id = new_leaf_id])
        Behind(c1) ==
            IF ~IsLast(over_node)
            THEN TreeUnpinPage(SetPrevPageId(GetLeafPage(c1, next_page_id)), next_page_id, TRUE)
            ELSE c1
    IN SetNextPageId(Behind(SetNode(c, new_leaf,
                                    [NodeAt(c, new_leaf) EXCEPT
                                        !.next_page_id = next_page_id,
                                        !.prev_page_id = over_node.page_id])))

SplitLeaf(c, over_frame, leaf_max_size, internal_max_size) ==
    IF c.crashed THEN c
    ELSE
    LET over_node == NodeAt(c, over_frame)
        size == GetSize(over_node)
        mid_index == over_node.max_size \div 2
        mid_key == KeyAt(over_node, mid_index)
        over_node_id == over_node.page_id
        left_arr == over_node.array
        SetArray(d, f, arr) == SetNode(d, f, [NodeAt(d, f) EXCEPT !.array = arr])
        ReleaseParent(c9, parent_frame) ==
            IF c9.crashed THEN c9
            ELSE TreeUnpinPage(c9, NodeAt(c9, parent_frame).page_id, TRUE)
    IN The({
         LET new_leaf == c0.frame
             new_leaf_id == c0.page_id
         IN The({
              LET parent_frame == c2.frame
              IN The({
                   \* lines 245-253: the parent is split when it is full, and released
                   ReleaseParent(
                      IF NeedSplit(NodeAt(c8, parent_frame))
                      THEN The({SplitInternal(
                                   SetNode(n1, n1.frame,
                                           InternalInit(n1.page_id, INVALID_PAGE_ID,
                                                        internal_max_size)),
                                   parent_frame, n1.frame, internal_max_size)
                                : n1 \in {TreeNewPage(c8)}})
                      ELSE c8,
                      parent_frame)
                   \* lines 216-244: mid_key goes up into the parent, the new leaf into
                   \* the leaf list, the entries from mid_index on into the new leaf
                   : c8 \in {TreeUnpinPage(
                                TreeUnpinPage(
                                   SetArray(
                                      SetArray(
                                         LinkNewLeaf(
                                            SetNode(c2, parent_frame,
                                                    InternalInsert(NodeAt(c2, parent_frame),
                                                                   mid_key, new_leaf_id)),
                                            over_frame, new_leaf),
                                         new_leaf, SubSeq(left_arr, mid_index + 1, size)),
                                      over_frame, SubSeq(left_arr, 1, mid_index)),
                                   over_node_id, TRUE),
                                new_leaf_id, TRUE)}})
              \* lines 195-213: the parent; a root that is split gets a new root above it
              : c2 \in {IF ~IsRootPage(over_node)
                        THEN GetInternalPage(
                                SetNode(c0, new_leaf,
                                        LeafInit(new_leaf_id, over_node.parent_page_id,
                                                 leaf_max_size)),
                                over_node.parent_page_id)
                        ELSE The({[SetNode(r1, new_leaf,
                                           LeafInit(new_leaf_id, r1.root_page_id, leaf_max_size))
                                      EXCEPT !.frame = r1.frame]
                                  : r1 \in {NewRootAbove(c0, over_frame, internal_max_size)}})}})
         : c0 \in {TreeNewPage(c)}})

\* Insert that returns on a duplicate key without releasing the leaf
Insert_DuplicateKeepsPin(c, key, value, leaf_max_size, internal_max_size) ==
    IF IsEmpty(c)
    THEN The({The({Returning(
                      TreeUnpinPage(
                         SetNode(c2, c1.frame,
                                 LeafInsert(LeafInit(c2.root_page_id, INVALID_PAGE_ID,
                                                     leaf_max_size),
                                            key, value).page),
                         c2.root_page_id, TRUE),
                      TRUE, NoValue)
                   : c2 \in {UpdateRootPageId([c1 EXCEPT !.root_page_id = c1.page_id])}})
              : c1 \in {TreeNewPage(c)}})
    ELSE The({LET leaf_frame == c1.frame
                  leaf_node_page == NodeAt(c1, leaf_frame)
                  inserted == LeafInsert(leaf_node_page, key, value)
              IN IF c1.crashed THEN c1
                 ELSE IF ~inserted.ok
                 THEN Returning(c1, FALSE, NoValue)
                 ELSE IF NeedSplit(inserted.page)
                 THEN Returning(SplitLeaf(SetNode(c1, leaf_frame, inserted.page), leaf_frame,
                                          leaf_max_size, internal_max_size),
                                TRUE, NoValue)
                 ELSE Returning(TreeUnpinPage(SetNode(c1, leaf_frame, inserted.page),
                                              leaf_node_page.page_id, TRUE),
                                TRUE, NoValue)
              : c1 \in {FindLeafPage(c, key)}})

Insert(c, key, value, leaf_max_size, internal_max_size) ==
    IF IsEmpty(c)
    \* lines 148-158: an empty tree gets a leaf as its root
    THEN The({The({Returning(
                      TreeUnpinPage(
                         SetNode(c2, c1.frame,
                                 LeafInsert(LeafInit(c2.root_page_id, INVALID_PAGE_ID,
                                                     leaf_max_size),
                                            key, value).page),
                         c2.root_page_id, TRUE),
                      TRUE, NoValue)
                   : c2 \in {UpdateRootPageId([c1 EXCEPT !.root_page_id = c1.page_id])}})
              : c1 \in {TreeNewPage(c)}})
    \* lines 160-174: insert into the leaf; a full leaf is split
    ELSE The({LET leaf_frame == c1.frame
                  leaf_node_page == NodeAt(c1, leaf_frame)
                  inserted == LeafInsert(leaf_node_page, key, value)
              IN IF c1.crashed THEN c1
                 ELSE IF ~inserted.ok
                 THEN Returning(TreeUnpinPage(c1, leaf_node_page.page_id, FALSE), FALSE, NoValue)
                 ELSE IF NeedSplit(inserted.page)
                 THEN Returning(SplitLeaf(SetNode(c1, leaf_frame, inserted.page), leaf_frame,
                                          leaf_max_size, internal_max_size),
                                TRUE, NoValue)
                 ELSE Returning(TreeUnpinPage(SetNode(c1, leaf_frame, inserted.page),
                                              leaf_node_page.page_id, TRUE),
                                TRUE, NoValue)
              : c1 \in {FindLeafPage(c, key)}})

\* ---------------------------------------------------------------- Remove
\* the loop of GetLeftMostKey: down the first pointers to a leaf
RECURSIVE LeftMost(_, _)
LeftMost(c, steps) ==
    IF c.crashed THEN c
    ELSE LET cur_page == NodeAt(c, c.frame)
         IN IF IsLeafPage(cur_page) THEN c
            ELSE IF cur_page.page_type # INTERNAL_PAGE \/ steps = 0 THEN Crash(c)
            ELSE The({LeftMost([TreeUnpinPage(c1, cur_page.page_id, FALSE)
                                   EXCEPT !.frame = c1.frame],
                               steps - 1)
                      : c1 \in {GetPage(c, ValueAt(cur_page, 0))}})

\* returns the key in .value
GetLeftMostKey(c, internal_frame) ==
    The({IF c1.crashed THEN c1
         ELSE LET leaf == NodeAt(c1, c1.frame)
              IN [TreeUnpinPage(c1, leaf.page_id, FALSE) EXCEPT !.value = KeyAt(leaf, 0)]
         : c1 \in {LeftMost(GetInternalPage(c, ValueAt(NodeAt(c, internal_frame), 0)),
                            TreeMaxPageId + 1)}})

\* the loop of UpdateParentKey: up while the page is its parent's first child;
\* c.frame holds parent_page
RECURSIVE Climb(_, _, _, _, _)
Climb(c, new_key, cur_id, parent_id, steps) ==
    IF c.crashed THEN c
    ELSE LET parent_page == NodeAt(c, c.frame)
             pos == SearchPosition(parent_page, cur_id)
         IN IF pos = 0
            THEN IF steps = 0 THEN Crash(c)
                 ELSE Climb(GetInternalPage(TreeUnpinPage(c, cur_id, FALSE),
                                            parent_page.parent_page_id),
                            new_key, parent_id, parent_page.parent_page_id, steps - 1)
            ELSE TreeUnpinPage(
                    TreeUnpinPage(SetNode(c, c.frame, SetKeyAt(parent_page, pos, new_key)),
                                  cur_id, FALSE),
                    parent_id, TRUE)

\* UpdateParentKey that leaves the separator as it was
UpdateParentKey_Skip(c, new_key, page_id) == c

UpdateParentKey(c, new_key, page_id) ==
    The({IF c1.crashed THEN c1
         ELSE LET parent_id == NodeAt(c1, c1.frame).parent_page_id
              IN Climb(GetInternalPage(c1, parent_id), new_key, page_id, parent_id,
                       TreeMaxPageId + 1)
         : c1 \in {GetPage(c, page_id)}})

\* StealSibling; .ok tells whether an entry was stolen
StealSibling(c, deleting_frame) ==
    LET deleting_leaf == NodeAt(c, deleting_frame)
        from_prev == IsLast(deleting_leaf)
    IN The({
         LET stealing_frame == c1.frame
             stealing_leaf == NodeAt(c1, stealing_frame)
             stolen == IF from_prev THEN StealLast(stealing_leaf) ELSE StealFirst(stealing_leaf)
         IN IF c1.crashed \/ ~IsLeafPage(stealing_leaf) THEN Crash(c1)
            ELSE IF ~stolen.ok
            THEN [TreeUnpinPage(c1, stealing_leaf.page_id, FALSE) EXCEPT
                     !.ok = FALSE,
                     !.partners = @ \cup {<<deleting_leaf.page_id, stealing_leaf.page_id>>}]
            ELSE The({[TreeUnpinPage(
                          UpdateParentKey(
                             c3,
                             IF from_prev THEN KeyAt(NodeAt(c3, deleting_frame), 0)
                             ELSE KeyAt(stolen.page, 0),
                             IF from_prev THEN deleting_leaf.page_id
                             ELSE stealing_leaf.page_id),
                          stealing_leaf.page_id, TRUE)
                         EXCEPT !.ok = TRUE,
                                !.partners = @ \cup {<<deleting_leaf.page_id,
                                                       stealing_leaf.page_id>>}]
                      : c3 \in {SetNode(SetNode(c1, stealing_frame, stolen.page),
                                        deleting_frame,
                                        IF from_prev
                                        THEN InsertFirst(deleting_leaf, stolen.value)
                                        ELSE InsertLast(deleting_leaf, stolen.value))}})
         : c1 \in {GetLeafPage(c, IF from_prev THEN deleting_leaf.prev_page_id
                                  ELSE deleting_leaf.next_page_id)}})

\* StealInternal; .ok tells whether a child was stolen
StealInternal(c, deleting_frame, parent_frame, neber_frame, target_index, is_last) ==
    LET deleting_internal == NodeAt(c, deleting_frame)
        parent_internal == NodeAt(c, parent_frame)
        neber_internal == NodeAt(c, neber_frame)
        stolen == IF is_last THEN StealLast(neber_internal) ELSE StealFirst(neber_internal)
        grown == InsertLast(deleting_internal, stolen.value)
    IN IF c.crashed THEN c
       ELSE IF ~stolen.ok THEN [c EXCEPT !.ok = FALSE]
       ELSE IF is_last
       THEN [UpdateParentId(
                SetNode(SetNode(SetNode(c, neber_frame, stolen.page),
                                deleting_frame,
                                SetKeyAt(InsertFirst(deleting_internal, stolen.value), 1,
                                         KeyAt(parent_internal, target_index))),
                        parent_frame,
                        SetKeyAt(parent_internal, target_index, stolen.value.key)),
                stolen.value.value, deleting_internal.page_id)
               EXCEPT !.ok = TRUE]
       ELSE The({[UpdateParentId(
                     SetNode(c3, parent_frame,
                             SetKeyAt(parent_internal, target_index + 1, c3.value)),
                     stolen.value.value, deleting_internal.page_id)
                    EXCEPT !.ok = TRUE]
                 : c3 \in {GetLeftMostKey(
                              SetNode(SetNode(c, neber_frame, stolen.page),
                                      deleting_frame,
                                      SetKeyAt(grown, GetSize(grown),
                                               KeyAt(parent_internal, target_index + 1))),
                              neber_frame)}})

\* CollapseRoot without SetParentPageId(INVALID_PAGE_ID)
CollapseRoot_KeepParent(c, child_frame) ==
    UpdateRootPageId(
        [TreeDeletePage(TreeUnpinPage(c, c.root_page_id, FALSE), c.root_page_id)
            EXCEPT !.root_page_id = NodeAt(c, child_frame).page_id])

\* the root has one child left: the child becomes the root
CollapseRoot(c, child_frame) ==
    The({UpdateRootPageId(
            [TreeDeletePage(TreeUnpinPage(c1, c1.root_page_id, FALSE), c1.root_page_id)
                EXCEPT !.root_page_id = NodeAt(c1, child_frame).page_id])
         : c1 \in {SetNode(c, child_frame,
                           [NodeAt(c, child_frame) EXCEPT !.parent_page_id = INVALID_PAGE_ID])}})

RECURSIVE Merge(_, _)
Merge(c, rest_frame) ==
    IF c.crashed THEN c
    ELSE IF IsLeafPage(NodeAt(c, rest_frame))
    THEN
    LET rest_leaf == NodeAt(c, rest_frame)
    IN The({
         LET parent_frame == c1.frame
             target_index == SearchPosition(NodeAt(c1, parent_frame), rest_leaf.page_id)
             \* parent->Remove(target_index)
             ParentRemove(m) ==
                 SetNode(m, parent_frame, InternalRemove(NodeAt(m, parent_frame), target_index))
         IN The({
              LET merging_frame == c2.frame
                  merging_leaf == NodeAt(c2, merging_frame)
                  merged == MergeFromLeft(merging_leaf, rest_leaf)
              IN IF c2.crashed THEN c2
                 ELSE IF \/ ~IsLeafPage(merging_leaf)
                         \/ NodeAt(c1, parent_frame).page_type # INTERNAL_PAGE
                 THEN Crash(c2)
                 ELSE The({
                        \* the parent is merged in its turn when it is below its minimum
                        LET parent_page == NodeAt(c7, parent_frame)
                        IN IF c7.crashed THEN c7
                           ELSE IF NeedRedsb(parent_page)
                           THEN IF IsRootPage(parent_page) /\ GetSize(parent_page) <= 0
                                THEN CollapseRoot(c7, merging_frame)
                                ELSE Merge(c7, parent_frame)
                           ELSE TreeUnpinPage(c7, parent_page.page_id, TRUE)
                        \* the sibling takes the entries, the parent loses the slot, the
                        \* leaf list loses the leaf, the leaf's page is deleted
                        : c7 \in {[TreeDeletePage(
                                     TreeUnpinPage(
                                        TreeUnpinPage(
                                           IF IsLast(rest_leaf)
                                           THEN ParentRemove(
                                                   SetNode(c2, merging_frame,
                                                           [MergeFromRight(merging_leaf, rest_leaf)
                                                               EXCEPT !.next_page_id =
                                                                          INVALID_PAGE_ID]))
                                           ELSE UpdateParentKey(
                                                   ParentRemove(
                                                      IF IsFirst(rest_leaf)
                                                      THEN SetNode(c2, merging_frame,
                                                                   [merged EXCEPT
                                                                       !.prev_page_id =
                                                                           INVALID_PAGE_ID])
                                                      ELSE The({
                                                             LET prev_leaf == NodeAt(p1, p1.frame)
                                                             IN SetNode(
                                                                   SetNode(p1, p1.frame,
                                                                           [prev_leaf EXCEPT
                                                                               !.next_page_id =
                                                                                   merging_leaf.page_id]),
                                                                   merging_frame,
                                                                   [merged EXCEPT
                                                                       !.prev_page_id =
                                                                           prev_leaf.page_id])
                                                             : p1 \in {GetLeafPage(
                                                                          c2,
                                                                          rest_leaf.prev_page_id)}})),
                                                   KeyAt(merged, 0), merging_leaf.page_id),
                                           merging_leaf.page_id, TRUE),
                                        rest_leaf.page_id, FALSE),
                                     rest_leaf.page_id)
                                    EXCEPT !.partners = @ \cup {<<rest_leaf.page_id,
                                                                   merging_leaf.page_id>>}]}})
              : c2 \in {GetLeafPage(c1, IF IsLast(rest_leaf) THEN rest_leaf.prev_page_id
                                        ELSE rest_leaf.next_page_id)}})
         : c1 \in {GetInternalPage(c, rest_leaf.parent_page_id)}})
    ELSE
    LET deleting_internal == NodeAt(c, rest_frame)
        children == [i \in DOMAIN deleting_internal.array |-> deleting_internal.array[i].value]
    IN The({
         LET parent_frame == c1.frame
             parent_internal == NodeAt(c1, parent_frame)
             target_index == SearchPosition(parent_internal, deleting_internal.page_id)
             neber_index == IF target_index = GetSize(parent_internal) THEN target_index - 1
                            ELSE target_index + 1
             is_last == neber_index < target_index
         IN The({
              LET neber_frame == c2.frame
                  neber_internal == NodeAt(c2, neber_frame)
                  undefined == \/ deleting_internal.page_type # INTERNAL_PAGE
                               \/ parent_internal.page_type # INTERNAL_PAGE
                               \/ neber_internal.page_type # INTERNAL_PAGE
                               \/ target_index < 0
              IN IF c2.crashed THEN c2
                 ELSE IF undefined THEN Crash(c2)
                 ELSE The({
                        IF c3.crashed THEN c3
                        ELSE IF c3.ok
                        THEN TreeUnpinPage(
                                TreeUnpinPage(
                                   TreeUnpinPage(c3, deleting_internal.page_id, TRUE),
                                   parent_internal.page_id, TRUE),
                                neber_internal.page_id, TRUE)
                        ELSE The({
                               LET parent_after == NodeAt(c7, parent_frame)
                               IN IF c7.crashed THEN c7
                                  ELSE IF NeedRedsb(parent_after)
                                  THEN IF IsRootPage(parent_after)
                                       THEN IF GetSize(parent_after) <= 0
                                            THEN CollapseRoot(c7, neber_frame)
                                            ELSE TreeUnpinPage(c7, c7.root_page_id, FALSE)
                                       ELSE Merge(c7, parent_frame)
                                  ELSE TreeUnpinPage(c7, parent_after.page_id, TRUE)
                               \* the neighbour takes the children and the separator, the
                               \* parent loses the slot, the page is deleted
                               : c7 \in {TreeDeletePage(
                                            TreeUnpinPage(
                                               TreeUnpinPage(
                                                  IF is_last
                                                  THEN SetNode(
                                                          SetNode(
                                                             UpdateParentIds(c3, children,
                                                                             neber_internal.page_id),
                                                             neber_frame,
                                                             [neber_internal EXCEPT !.array =
                                                                 @ \o <<MappingType(
                                                                          KeyAt(parent_internal,
                                                                                target_index),
                                                                          ValueAt(deleting_internal, 0))>>
                                                                   \o Tail(deleting_internal.array)]),
                                                          parent_frame,
                                                          InternalRemove(parent_internal, target_index))
                                                  ELSE The({
                                                         SetNode(m3, parent_frame,
                                                                 SetKeyAt(NodeAt(m3, parent_frame),
                                                                          target_index, m3.value))
                                                         : m3 \in {GetLeftMostKey(
                                                                      SetNode(
                                                                         SetNode(
                                                                            UpdateParentIds(
                                                                               c3, children,
                                                                               neber_internal.page_id),
                                                                            neber_frame,
                                                                            [neber_internal EXCEPT !.array =
                                                                                deleting_internal.array
                                                                                \o <<MappingType(
                                                                                       KeyAt(parent_internal,
                                                                                             target_index + 1),
                                                                                       ValueAt(neber_internal, 0))>>
                                                                                \o Tail(@)]),
                                                                         parent_frame,
                                                                         InternalRemove(parent_internal,
                                                                                        target_index)),
                                                                      rest_frame)}}),
                                                  neber_internal.page_id, TRUE),
                                               deleting_internal.page_id, FALSE),
                                            deleting_internal.page_id)}})
                        : c3 \in {StealInternal(c2, rest_frame, parent_frame, neber_frame,
                                                target_index, is_last)}})
              : c2 \in {GetInternalPage(c1, ValueAt(parent_internal, neber_index))}})
         : c1 \in {GetInternalPage(c, deleting_internal.parent_page_id)}})

Remove(c, key) ==
    IF IsEmpty(c) THEN c
    ELSE The({
           LET deleting_frame == c1.frame
               removed == LeafRemove(NodeAt(c1, deleting_frame), key)
               c2 == SetNode(c1, deleting_frame, removed.page)
               deleting_leaf == removed.page
               updated(d) == IF removed.need_update
                             THEN UpdateParentKey(d, KeyAt(NodeAt(d, deleting_frame), 0),
                                                  deleting_leaf.page_id)
                             ELSE d
           IN IF c1.crashed THEN c1
              ELSE IF ~removed.ok THEN c1
              ELSE IF IsRootPage(deleting_leaf) THEN c2
              ELSE IF ~NeedRedsb(deleting_leaf)
              THEN TreeUnpinPage(updated(c2), deleting_leaf.page_id, TRUE)
              ELSE The({IF stolen.crashed THEN stolen
                        ELSE IF stolen.ok
                        THEN TreeUnpinPage(updated(stolen), deleting_leaf.page_id, TRUE)
                        ELSE Merge(stolen, deleting_frame)
                        : stolen \in {StealSibling(c2, deleting_frame)}})
           : c1 \in {FindLeafPage(c, key)}})

\* ------------------------------------------------ the index: its calls
RECURSIVE SumPins(_, _)
SumPins(s, frames) ==
    IF frames = {} THEN 0
    ELSE LET f == CHOOSE g \in frames : TRUE
         IN s.pages[f].pin_count + SumPins(s, frames \ {f})

\* an index without entries on a pool of pool_size frames that holds the
\* header page, called by threads; kv is the map the calls made so far stand
\* for
TreeInitOver(pool_size, leaf_sizes, internal_sizes, max_key, threads) ==
    /\ bpm = WithHeaderPage(NewTreePool(pool_size))
    /\ last = [op |-> "none", key |-> 0, value |-> NoValue, ok |-> FALSE, found |-> NoValue,
               modified |-> {}, null_page |-> FALSE, partners |-> {}, unheld |-> FALSE,
                unpinned_write |-> FALSE]
    /\ returned_ids = {}
    /\ owed = [p \in 0 .. MaxPageId |-> 0]
    /\ owed_calls = [p \in 0 .. MaxPageId |-> 0]
    /\ \E leaf_max_size \in leaf_sizes :
       \E internal_max_size \in internal_sizes :
          tree = [root_page_id |-> INVALID_PAGE_ID, leaf_max_size |-> leaf_max_size,
                  internal_max_size |-> internal_max_size, crashed |-> FALSE, calls |-> 0]
    /\ kv = [k \in 1 .. max_key |-> NoValue]
    /\ conc = threads

\* the call returns (or the process stops at a null page): the pool and
\* root_page_id_ it leaves; last is the call: its name, its key and value
\* arguments, what it returned (ok, and for GetValue the value found), the pages
\* it wrote, whether the pool handed it nullptr, the leaves it brought
\* together, whether its descent fetched a child with its parent unpinned, and
\* whether it wrote to a page it had no pin on
TreeReturns(op, key, value, c, max_calls) ==
    /\ ~tree.crashed
    /\ tree.calls < max_calls
    /\ ~c.exhausted
    /\ c.crashed \/ SumPins(c.s, DOMAIN c.s.pages) <= MaxLeaked
    /\ bpm' = IF c.crashed THEN bpm ELSE [c.s EXCEPT !.replacer = Compact(@)]
    /\ tree' = [tree EXCEPT !.root_page_id = IF c.crashed THEN @ ELSE c.root_page_id,
                            !.crashed = c.crashed, !.calls = @ + 1]
    /\ last' = [op |-> op, key |-> key, value |-> value, ok |-> c.ok, found |-> c.value,
                modified |-> c.modified, null_page |-> c.null_page, partners |-> c.partners,
                unheld |-> c.unheld, unpinned_write |-> c.unpinned_write]
    /\ UNCHANGED <<returned_ids, owed, owed_calls>>

\* Insert of one of keys with a value of 1 .. max_value
InsertWithin(keys, max_value, max_calls) ==
    \E key \in keys, value \in 1 .. max_value :
        LET c == Insert(Running(bpm, tree.root_page_id), key, value,
                        tree.leaf_max_size, tree.internal_max_size)
        IN /\ TreeReturns("Insert", key, value, c, max_calls)
           /\ kv' = IF ~c.crashed /\ kv[key] = NoValue THEN [kv EXCEPT ![key] = value] ELSE kv
           /\ UNCHANGED conc

RemoveWithin(max_calls) ==
    \E key \in DOMAIN kv :
        LET c == Remove(Running(bpm, tree.root_page_id), key)
        IN /\ TreeReturns("Remove", key, NoValue, Returning(c, FALSE, NoValue), max_calls)
           /\ kv' = IF ~c.crashed THEN [kv EXCEPT ![key] = NoValue] ELSE kv
           /\ UNCHANGED conc

GetValueWithin(max_calls) ==
    \E key \in DOMAIN kv :
        LET c == GetValue(Running(bpm, tree.root_page_id), key)
        IN /\ TreeReturns("GetValue", key, NoValue, c, max_calls)
           /\ UNCHANGED <<kv, conc>>

MapFlushAllPages ==
    /\ ~tree.crashed
    /\ tree.calls < MapMaxCalls
    /\ bpm' = FlushAllPgsImp(bpm).s
    /\ last' = [op |-> "FlushAllPages", key |-> 0, value |-> NoValue, ok |-> TRUE,
                found |-> NoValue, modified |-> {}, null_page |-> FALSE, partners |-> {}, unheld |-> FALSE,
                unpinned_write |-> FALSE]
    /\ tree' = [tree EXCEPT !.calls = @ + 1]
    /\ UNCHANGED <<returned_ids, owed, owed_calls, kv, conc>>

TreeNext ==
    \/ InsertWithin(DOMAIN kv, MaxValue, MaxCalls)
    \/ RemoveWithin(MaxCalls)

TreeSpec ==
    /\ TreeInitOver(TreePoolSize, MinLeafSize .. MaxLeafSize,
                    MinInternalSize .. MaxInternalSize, MaxKey, NoThreads)
    /\ [][TreeNext]_vars

MapNext ==
    \/ InsertWithin(DOMAIN kv, MapMaxValue, MapMaxCalls)
    \/ RemoveWithin(MapMaxCalls)
    \/ GetValueWithin(MapMaxCalls)
    \/ MapFlushAllPages

MapSpec ==
    /\ TreeInitOver(TreePoolSize, MinLeafSize .. MaxLeafSize,
                    MinInternalSize .. MaxInternalSize, MapMaxKey, NoThreads)
    /\ [][MapNext]_vars

\* ---------------------------------------------------- reading the index
\* the node page page_id as the pool would hand it out now: the frame that
\* holds it, the device otherwise
PageNow(s, page_id) ==
    AsTreePage(IF s.page_table[page_id] # NoFrame THEN s.pages[s.page_table[page_id]].data
               ELSE ReadPage(s.disk, page_id))

\* the node page page_id as a fresh pool on the same device would read it
PageOnDevice(s, page_id) == AsTreePage(ReadPage(s.disk, page_id))

\* the keys of a sequence of (key, value) pairs
KeysOf(entries) == [i \in DOMAIN entries |-> entries[i].key]

Steps == TreeMaxPageId + 2

Now(page_id) == PageNow(bpm, page_id)

OnDevice(page_id) == PageOnDevice(bpm, page_id)

RECURSIVE Flatten(_)
Flatten(seqs) == IF seqs = <<>> THEN <<>> ELSE Head(seqs) \o Flatten(Tail(seqs))

\* the page ids of the subtree below page_id; a subtree
\* deeper than the number of pages is cut
RECURSIVE Subtree(_, _)
Subtree(page_id, steps) ==
    IF page_id \notin TreePageIds \/ steps = 0 THEN {}
    ELSE LET n == Now(page_id)
         IN IF n.page_type # INTERNAL_PAGE THEN {page_id}
            ELSE {page_id} \cup UNION {Subtree(n.array[i].value, steps - 1) :
                                          i \in DOMAIN n.array}

\* the (key, value) pairs of the leaves below page_id, children left to right,
\* read from the pool or, with device, from the device
RECURSIVE EntriesVia(_, _, _)
EntriesVia(device, page_id, steps) ==
    IF page_id \notin TreePageIds \/ steps = 0 THEN <<>>
    ELSE LET n == IF device THEN OnDevice(page_id) ELSE Now(page_id)
         IN IF IsLeafPage(n) THEN n.array
            ELSE IF n.page_type # INTERNAL_PAGE THEN <<>>
            ELSE Flatten([i \in DOMAIN n.array |-> EntriesVia(device, n.array[i].value, steps - 1)])

\* the depths at which the leaves below page_id lie
RECURSIVE LeafDepths(_, _, _)
LeafDepths(page_id, depth, steps) ==
    IF page_id \notin TreePageIds \/ steps = 0 THEN {-1}
    ELSE LET n == Now(page_id)
         IN IF IsLeafPage(n) THEN {depth}
            ELSE IF n.page_type # INTERNAL_PAGE THEN {-1}
            ELSE UNION {LeafDepths(n.array[i].value, depth + 1, steps - 1) :
                           i \in DOMAIN n.array}

\* GetFirstLeaf: down the first pointers
RECURSIVE FirstLeaf(_, _)
FirstLeaf(page_id, steps) ==
    IF page_id \notin TreePageIds \/ steps = 0 THEN INVALID_PAGE_ID
    ELSE LET n == Now(page_id)
         IN IF IsLeafPage(n) THEN page_id
            ELSE IF n.page_type # INTERNAL_PAGE \/ n.array = <<>> THEN INVALID_PAGE_ID
            ELSE FirstLeaf(n.array[1].value, steps - 1)

\* the entries met walking the leaf list from page_id through next_page_id
RECURSIVE LeafList(_, _)
LeafList(page_id, steps) ==
    IF page_id \notin TreePageIds \ {INVALID_PAGE_ID} \/ steps = 0 THEN <<>>
    ELSE LET n == Now(page_id)
         IN IF ~IsLeafPage(n) THEN <<>>
            ELSE n.array \o LeafList(n.next_page_id, steps - 1)

TreePages == IF tree.root_page_id = INVALID_PAGE_ID THEN {}
             ELSE Subtree(tree.root_page_id, Steps)

TreeEntries == IF tree.root_page_id = INVALID_PAGE_ID THEN <<>>
               ELSE EntriesVia(FALSE, tree.root_page_id, Steps)

LeafListEntries ==
    IF tree.root_page_id = INVALID_PAGE_ID THEN <<>>
    ELSE LeafList(FirstLeaf(tree.root_page_id, Steps), Steps)

DeviceEntries == IF tree.root_page_id = INVALID_PAGE_ID THEN <<>>
                 ELSE EntriesVia(TRUE, tree.root_page_id, Steps)

StrictlyAscending(keys) == \A i \in 1 .. Len(keys) - 1 : keys[i] < keys[i + 1]

\* the map a sequence of (key, value) pairs stands for
MapOf(entries) ==
    [k \in DOMAIN kv |-> IF \E i \in DOMAIN entries : entries[i].key = k
                    THEN entries[CHOOSE i \in DOMAIN entries : entries[i].key = k].value
                    ELSE NoValue]

\* smallest key stored below page_id, 0 when the subtree holds none
MinKeyBelow(page_id) ==
    LET entries == EntriesVia(FALSE, page_id, Steps)
    IN IF entries = <<>> THEN 0 ELSE Min({entries[i].key : i \in DOMAIN entries})

\* entries of a node as P7 counts them: pairs of a leaf, children of an
\* internal node
Entries(n) == Len(n.array)

AllUnpinned(s) == \A f \in DOMAIN s.pages : s.pages[f].pin_count = 0

\* the depths of the leaves of the index, the root at depth 0
Depths == IF tree.root_page_id = INVALID_PAGE_ID THEN {}
          ELSE LeafDepths(tree.root_page_id, 0, Steps)

\* ------------------------------------------- the index on a small pool
\* TightSpec: at most TightMaxCalls calls of Insert, Remove and GetValue over
\* keys 1 .. TightMaxKey on a pool of TightPoolSize frames, which a split
\* finds without a free or evictable frame.
TightPoolSize == 3
TightMaxKey == 3
TightMaxCalls == 4

TightNext ==
    \/ InsertWithin(DOMAIN kv, 1, TightMaxCalls)
    \/ RemoveWithin(TightMaxCalls)
    \/ GetValueWithin(TightMaxCalls)

TightSpec ==
    /\ TreeInitOver(TightPoolSize, MinLeafSize .. MaxLeafSize,
                    MinInternalSize .. MaxInternalSize, TightMaxKey, NoThreads)
    /\ [][TightNext]_vars

\* ------------------------------------------- keys inserted in ascending order
\* AscSpec: an index with LEAF_MAX 4 and INTERNAL_MAX 3 into which keys of
\* 1 .. AscMaxKey are inserted, each greater than the keys inserted before it.
AscMaxKey == 10

AscNext ==
    \/ InsertWithin({key \in DOMAIN kv : \A k \in DOMAIN kv : kv[k] # NoValue => k < key},
                    1, AscMaxKey)

AscSpec ==
    /\ TreeInitOver(TreePoolSize, {4}, {3}, AscMaxKey, NoThreads)
    /\ [][AscNext]_vars

\* ------------------------------------------- threads calling the pool
\* ConcSpec: NumThreads threads call a pool of ConcPoolSize frames over page
\* ids 0 .. ConcMaxPageId, ConcMaxCalls calls in all.
NumThreads == 2
ConcMaxCalls == 3
ConcPoolSize == 1
ConcMaxPageId == 1

Threads == 1 .. NumThreads

PoolOps == {"NewPage", "FetchPage", "UnpinPage", "FlushPage", "FlushAllPages", "DeletePage"}

\* the pool operations that begin with std::lock_guard<std::mutex> lock(latch_)
TakesLatch_FetchUnlocked(op) == op \in PoolOps \ {"FetchPage"}

TakesLatch(op) == op \in PoolOps

\* the body of a pool operation on pool s
Apply(op, s, page_id, is_dirty) ==
    CASE op = "NewPage" -> NewPgImp(s)
      [] op = "FetchPage" -> FetchPgImp(s, page_id)
      [] op = "UnpinPage" -> UnpinPgImp(s, page_id, is_dirty)
      [] op = "FlushPage" -> FlushPgImp(s, page_id)
      [] op = "FlushAllPages" -> FlushAllPgsImp(s)
      [] op = "DeletePage" -> DeletePgImp(s, page_id)

\* what the caller gets back: the page (its frame and id) or the boolean
Returned(r) == [frame |-> r.frame, page_id |-> r.page_id, ok |-> r.ok]

Idle == [pc |-> "idle", op |-> "none", page_id |-> INVALID_PAGE_ID, is_dirty |-> FALSE,
         seen |-> 0, returned |-> 0]

ConcInit ==
    /\ bpm = NewPool(ConcPoolSize, ConcMaxPageId)
    /\ last = [op |-> "none", thread |-> 0, returned |-> 0, expected |-> 0]
    /\ returned_ids = {}
    /\ owed = [p \in 0 .. MaxPageId |-> 0]
    /\ owed_calls = [p \in 0 .. MaxPageId |-> 0]
    /\ tree = NoTree
    /\ kv = <<>>
    /\ conc = [latch_ |-> 0, thread |-> [t \in Threads |-> Idle],
               serial |-> NewPool(ConcPoolSize, ConcMaxPageId), calls |-> 0]

ConcUnchanged == UNCHANGED <<returned_ids, owed, owed_calls, tree, kv>>

\* a thread calls a pool operation
Invoke ==
    \E t \in Threads, op \in PoolOps, page_id \in 0 .. ConcMaxPageId, is_dirty \in BOOLEAN :
        /\ conc.thread[t].pc = "idle"
        /\ conc.calls < ConcMaxCalls
        /\ op = "NewPage" => bpm.next_page_id <= ConcMaxPageId
        /\ op \in {"NewPage", "FlushAllPages"} => page_id = 0
        /\ op \notin {"NewPage", "FlushAllPages"} => page_id \in KnownIds(bpm)
        /\ op # "UnpinPage" => is_dirty = FALSE
        /\ conc' = [conc EXCEPT !.thread[t] = [Idle EXCEPT !.pc = "called", !.op = op,
                                                            !.page_id = page_id,
                                                            !.is_dirty = is_dirty],
                                 !.calls = @ + 1]
        /\ UNCHANGED <<bpm, last>>
        /\ ConcUnchanged

\* the lock_guard is constructed: the thread waits until latch_ is free
Acquire ==
    \E t \in Threads :
        /\ conc.thread[t].pc = "called"
        /\ IF TakesLatch(conc.thread[t].op)
           THEN /\ conc.latch_ = 0
                /\ conc' = [conc EXCEPT !.latch_ = t, !.thread[t].pc = "entered"]
           ELSE conc' = [conc EXCEPT !.thread[t].pc = "entered"]
        /\ UNCHANGED <<bpm, last>>
        /\ ConcUnchanged

\* the body reads the pool's members
ReadPool ==
    \E t \in Threads :
        /\ conc.thread[t].pc = "entered"
        /\ conc' = [conc EXCEPT !.thread[t].pc = "read", !.thread[t].seen = bpm]
        /\ UNCHANGED <<bpm, last>>
        /\ ConcUnchanged

\* the body writes the pool's members
WritePool ==
    \E t \in Threads :
        LET call == conc.thread[t]
            r == Apply(call.op, call.seen, call.page_id, call.is_dirty)
        IN /\ call.pc = "read"
           /\ bpm' = r.s
           /\ conc' = [conc EXCEPT !.thread[t].pc = "written", !.thread[t].returned = Returned(r)]
           /\ UNCHANGED last
           /\ ConcUnchanged

\* the operation returns and the lock_guard is destroyed; the calls take
\* effect on the sequential pool conc.serial in the order of their returns
Release ==
    \E t \in Threads :
        LET call == conc.thread[t]
            r == Apply(call.op, conc.serial, call.page_id, call.is_dirty)
        IN /\ call.pc = "written"
           /\ conc' = [conc EXCEPT !.latch_ = IF @ = t THEN 0 ELSE @,
                                   !.thread[t] = Idle,
                                   !.serial = r.s]
           /\ last' = [op |-> call.op, thread |-> t, returned |-> call.returned,
                       expected |-> Returned(r)]
           /\ UNCHANGED bpm
           /\ ConcUnchanged

ConcNext ==
    \/ Invoke
    \/ Acquire
    \/ ReadPool
    \/ WritePool
    \/ Release

ConcSpec == ConcInit /\ [][ConcNext]_vars

\* ------------------------------------------- threads calling the index
\* ThreadedSpec: the threads call Insert, ThreadedMaxCalls calls in all over
\* keys 1 .. ThreadedMaxKey. No statement of Insert takes a latch: between
\* the test of IsEmpty() and the statements after it the other threads run.
ThreadedMaxKey == 2
ThreadedMaxCalls == 3

\* a thread calls Insert and evaluates IsEmpty()
InsertChecksEmpty ==
    \E t \in Threads, key \in DOMAIN kv :
        /\ ~tree.crashed
        /\ conc.thread[t].pc = "idle"
        /\ tree.calls + Cardinality({u \in Threads : conc.thread[u].pc # "idle"})
              < ThreadedMaxCalls
        /\ conc' = [conc EXCEPT !.thread[t] =
                       [pc |-> "checked", key |-> key,
                        empty |-> IsEmpty(Running(bpm, tree.root_page_id))]]
        /\ UNCHANGED <<bpm, last, returned_ids, owed, owed_calls, tree, kv>>

\* the thread runs the branch of Insert its test chose, and returns
InsertCompletes ==
    \E t \in Threads :
        LET call == conc.thread[t]
            c == Insert(Running(bpm, IF call.empty THEN INVALID_PAGE_ID
                                     ELSE tree.root_page_id),
                        call.key, call.key, tree.leaf_max_size, tree.internal_max_size)
        IN /\ call.pc = "checked"
           /\ TreeReturns("Insert", call.key, call.key, c, ThreadedMaxCalls)
           /\ kv' = IF ~c.crashed /\ c.ok THEN [kv EXCEPT ![call.key] = call.key] ELSE kv
           /\ conc' = [conc EXCEPT !.thread[t] = [pc |-> "idle", key |-> 0, empty |-> FALSE]]

ThreadedNext ==
    \/ InsertChecksEmpty
    \/ InsertCompletes

ThreadedSpec ==
    /\ TreeInitOver(TreePoolSize, MinLeafSize .. MaxLeafSize,
                    MinInternalSize .. MaxInternalSize, ThreadedMaxKey,
                    [NoThreads EXCEPT !.thread = [t \in Threads |->
                                         [pc |-> "idle", key |-> 0, empty |-> FALSE]]])
    /\ [][ThreadedNext]_vars

\* ================================================ properties of the index
\* C11: pool operations called from several threads execute one at a time
\* under latch_: whenever no thread holds the latch the pool is the pool the
\* completed calls produce when made one after the other in the order of their
\* returns, each completed call returned what it returns in that order, and
\* frame accounting (P2) and single residency (P3) hold in that pool.
PoolCallsLinearizable ==
    /\ last.op # "none" => last.returned = last.expected
    /\ conc.latch_ = 0 =>
          /\ bpm = conc.serial
          /\ Cardinality(FreeFrames(bpm)) + Cardinality(ResidentIds(bpm))
                = Cardinality(DOMAIN bpm.pages)
          /\ \A p \in ResidentIds(bpm) : Cardinality(FramesHolding(bpm, p)) <= 1

\* a call has returned while one thread is inside an operation and another
\* waits for the latch
PoolCallsLinearizableWitness ==
    /\ last.op # "none"
    /\ conc.latch_ # 0
    /\ conc.thread[conc.latch_].pc = "written"
    /\ \E t \in Threads : t # conc.latch_ /\ conc.thread[t].pc = "called"

\* C12: the index behaves like a map with unique keys: Insert(k, v) returns
\* true exactly when k is absent, and GetValue(k), made as a call or on the
\* state any call leaves, finds the value of the last successful Insert of k
\* that no Remove(k) followed and nothing otherwise.
TreeIsMap ==
    [][~tree'.crashed =>
          /\ last'.op = "Insert" => last'.ok = (kv[last'.key] = NoValue)
          /\ last'.op = "GetValue" =>
                /\ last'.ok = (kv[last'.key] # NoValue)
                /\ last'.found = kv[last'.key]
          /\ \A k \in DOMAIN kv :
                LET c == GetValue(Running(bpm', tree'.root_page_id), k)
                IN ~c.crashed => c.ok = (kv'[k] # NoValue) /\ c.value = kv'[k]]_vars

\* GetValue(k) finds nothing in an index whose entries have all been removed
TreeIsMapWitness ==
    /\ ~tree.crashed
    /\ last.op = "GetValue"
    /\ ~last.ok
    /\ tree.root_page_id # INVALID_PAGE_ID
    /\ \A k \in DOMAIN kv : kv[k] = NoValue

\* C13: Insert(k, v') on an index that holds k returns false and changes
\* neither the stored value of k, nor the content of any page, nor the root
\* page id, nor the pin count of any frame.
DuplicateInsertNoChange ==
    [][last'.op = "Insert" /\ kv[last'.key] # NoValue /\ ~tree'.crashed =>
          /\ ~last'.ok
          /\ kv' = kv
          /\ tree'.root_page_id = tree.root_page_id
          /\ \A p \in TreePageIds : PageNow(bpm', p) = PageNow(bpm, p)
          /\ \A f \in DOMAIN bpm.pages : bpm'.pages[f].pin_count = bpm.pages[f].pin_count]_vars

\* Insert(k, v') was refused on an index that holds k with another value
DuplicateInsertWitness ==
    /\ ~tree.crashed
    /\ last.op = "Insert"
    /\ ~last.ok
    /\ kv[last.key] \notin {NoValue, last.value}

\* C14: after every Insert, GetValue and Remove call every frame of the pool
\* has pin_count 0.
NoLeakedPins ==
    ~tree.crashed /\ last.op \in {"Insert", "GetValue", "Remove"} => AllUnpinned(bpm)

\* C15: the leaf list walked from the first leaf through next_page_id yields
\* every key of the index once, in strictly ascending order, and is the
\* in-order traversal from the root.
LeafListInOrder ==
    ~tree.crashed =>
       /\ StrictlyAscending(KeysOf(LeafListEntries))
       /\ LeafListEntries = TreeEntries
       /\ MapOf(LeafListEntries) = kv

\* a Remove has merged leaves and made a child the root, and three entries remain
LeafListInOrderWitness ==
    /\ ~tree.crashed
    /\ last.op = "Remove"
    /\ HEADER_PAGE_ID \in last.modified
    /\ Len(LeafListEntries) >= 3

\* C16: all leaves are at the same depth and every node but the root holds
\* between ceil(max/2) and max entries, for even and odd LEAF_MAX and
\* INTERNAL_MAX.
BalancedAndHalfFull ==
    ~tree.crashed /\ tree.root_page_id # INVALID_PAGE_ID =>
       /\ Cardinality(Depths) = 1
       /\ \A p \in TreePages \ {tree.root_page_id} :
             /\ Entries(Now(p)) >= CeilHalf(Now(p).max_size)
             /\ Entries(Now(p)) <= Now(p).max_size

ModifiedPagesDirty ==
    ~tree.crashed =>
       \A p \in last.modified :
          bpm.page_table[p] # NoFrame =>
             \/ bpm.pages[bpm.page_table[p]].is_dirty
             \/ Now(p) = OnDevice(p)

\* C20: after FlushAllPages the device holds the current content of every
\* page of the index, so that a fresh pool on the device reads the same
\* entries.
FlushedDeviceIsCurrent ==
    ~tree.crashed /\ last.op = "FlushAllPages" =>
       /\ \A p \in TreePages : Now(p) = OnDevice(p)
       /\ MapOf(DeviceEntries) = kv

\* C21: a call of Insert, Remove or GetValue to which NewPage or FetchPage
\* returned nullptr reports failure to its caller and leaves the root page id
\* and the content of every page as they were.
NullPageFailsCleanly ==
    last.null_page => ~tree.crashed /\ ~last.ok

\* C22: Remove(k) on an index that does not hold k changes neither the keys of
\* the index, nor the content of any page, nor the root page id, nor the pin
\* count or the dirty flag of any frame.
RemoveAbsentNoChange ==
    [][last'.op = "Remove" /\ kv[last'.key] = NoValue /\ ~tree'.crashed =>
          /\ kv' = kv
          /\ tree'.root_page_id = tree.root_page_id
          /\ \A p \in TreePageIds : PageNow(bpm', p) = PageNow(bpm, p)
          /\ \A f \in DOMAIN bpm.pages :
                /\ bpm'.pages[f].pin_count = bpm.pages[f].pin_count
                /\ bpm'.pages[f].is_dirty = bpm.pages[f].is_dirty]_vars

\* C23: a Remove that takes the last key out of an index whose root is a leaf
\* leaves the index marked empty (root_page_id_ is INVALID_PAGE_ID), and the
\* root a call leaves holds no entry only if the index is marked empty.
EmptyRootMeansEmptyTree ==
    [][~tree'.crashed =>
          /\ last'.op = "Remove" /\ kv[last'.key] # NoValue
                /\ (\A k \in DOMAIN kv : kv'[k] = NoValue)
                /\ IsLeafPage(Now(tree.root_page_id))
             => IsEmpty(Running(bpm', tree'.root_page_id))
          /\ tree'.root_page_id # INVALID_PAGE_ID
             => Entries(PageNow(bpm', tree'.root_page_id)) > 0]_vars

\* C24, as stated: the frame that held the old root is on the free list when
\* the Remove that collapsed the root returns.
OldRootFrameOnFreeList ==
    [][last'.op = "Remove" /\ ~tree'.crashed /\ tree'.root_page_id # tree.root_page_id
            /\ bpm.page_table[tree.root_page_id] # NoFrame
          => \E i \in DOMAIN bpm'.free_list :
                bpm'.free_list[i] = bpm.page_table[tree.root_page_id]]_vars

\* C24: no Remove leaves an internal root with a single child: the Remove that
\* takes the root's last key makes the remaining child the root, with
\* parent_page_id INVALID_PAGE_ID and root_page_id_ naming it, and deletes the
\* old root's page from the pool; its frame is on the free list when Remove
\* returns unless the FetchPage of the header page took it from there.
RootCollapse ==
    [][last'.op = "Remove" /\ ~tree'.crashed =>
          /\ tree'.root_page_id # INVALID_PAGE_ID /\ ~IsLeafPage(PageNow(bpm', tree'.root_page_id))
             => GetSize(PageNow(bpm', tree'.root_page_id)) >= 1
          /\ tree'.root_page_id # tree.root_page_id =>
                /\ \E i \in 0 .. GetSize(Now(tree.root_page_id)) :
                      ValueAt(Now(tree.root_page_id), i) = tree'.root_page_id
                /\ PageNow(bpm', tree'.root_page_id).parent_page_id = INVALID_PAGE_ID
                /\ bpm'.page_table[tree.root_page_id] = NoFrame
                /\ bpm.page_table[tree.root_page_id] # NoFrame =>
                      \/ \E i \in DOMAIN bpm'.free_list :
                            bpm'.free_list[i] = bpm.page_table[tree.root_page_id]
                      \/ bpm'.page_table[HEADER_PAGE_ID] = bpm.page_table[tree.root_page_id]]_vars

\* a Remove made a child of the root the root
RootCollapseWitness ==
    /\ ~tree.crashed
    /\ last.op = "Remove"
    /\ HEADER_PAGE_ID \in last.modified
    /\ Now(tree.root_page_id).parent_page_id = INVALID_PAGE_ID
    /\ Now(HEADER_PAGE_ID).record = tree.root_page_id

ConcurrentInsertsKept ==
    ~tree.crashed /\ (\A t \in Threads : conc.thread[t].pc = "idle") =>
       \A k \in DOMAIN kv :
          kv[k] # NoValue =>
             LET c == GetValue(Running(bpm, tree.root_page_id), k)
             IN c.ok /\ c.value = kv[k]

\* C27: an UnpinPage(p, d) that returns true takes one from the pin_count of
\* p's frame, leaves its dirty flag set if it was set or d is true, makes the
\* frame evictable exactly when the pin_count has reached 0, and changes
\* nothing else of the pool.
UnpinEffect ==
    [][last'.op = "UnpinPage" /\ last'.ok =>
          LET f == bpm.page_table[last'.page]
          IN /\ f # NoFrame
             /\ bpm.pages[f].pin_count > 0
             /\ bpm'.replacer.evictable[f] = (bpm'.pages[f].pin_count = 0)
             /\ bpm' = [bpm EXCEPT !.pages[f].pin_count = @ - 1,
                                   !.pages[f].is_dirty = @ \/ last'.is_dirty,
                                   !.replacer.evictable[f] =
                                       IF bpm.pages[f].pin_count = 1 THEN TRUE ELSE @]]_vars

\* UnpinPage(p, false) released the last pin of a dirty page, which is still
\* dirty
UnpinEffectWitness ==
    /\ last.op = "UnpinPage" /\ last.ok /\ ~last.is_dirty
    /\ bpm.page_table[last.page] # NoFrame
    /\ bpm.pages[bpm.page_table[last.page]].is_dirty
    /\ bpm.pages[bpm.page_table[last.page]].pin_count = 0
    /\ bpm.replacer.evictable[bpm.page_table[last.page]]

\* C28: with LEAF_MAX 4 and INTERNAL_MAX 3 and keys inserted in ascending
\* order, the leaves are two levels below the root from the eighth Insert on
\* and not before, and after every Insert the leaf list is the index in
\* ascending order (P6), the leaves are at one depth and every node but the
\* root is at least half full (P7), and every separator is the smallest key
\* below its child (P8).
AscendingGrowth ==
    ~tree.crashed /\ tree.calls > 0 =>
       /\ (Depths = {2}) = (tree.calls >= 8)
       /\ Depths = {2} \/ (Depths = {1}) = (tree.calls >= 4)
       /\ StrictlyAscending(KeysOf(LeafListEntries))
       /\ LeafListEntries = TreeEntries /\ MapOf(TreeEntries) = kv
       /\ \A p \in TreePages :
             /\ p # tree.root_page_id =>
                   Entries(Now(p)) \in CeilHalf(Now(p).max_size) .. Now(p).max_size
             /\ ~IsLeafPage(Now(p)) =>
                   \A i \in 1 .. GetSize(Now(p)) :
                      KeyAt(Now(p), i) = MinKeyBelow(ValueAt(Now(p), i))

\* the keys 1 .. 10 have been inserted in this order
AscendingGrowthWitness ==
    /\ ~tree.crashed
    /\ tree.leaf_max_size = 4 /\ tree.internal_max_size = 3
    /\ tree.calls = 10
    /\ \A k \in 1 .. 10 : kv[k] # NoValue
    /\ Depths = {2}

\* C29: an Insert of a new key that leaves its leaf below LEAF_MAX entries
\* stores the entry in place and makes no page; one that brings the leaf to
\* LEAF_MAX entries splits it before returning: with mid = max / 2 the leaf
\* keeps entries [0, mid), a new leaf gets entries [mid, end) and stands in
\* the leaf list between the leaf and its former successor, and the first
\* key of the new leaf is a separator: in the new leaf's parent, or, when the
\* parent was split in turn, in the node the split moved it to.
LeafSplitsAtMax ==
    [][last'.op = "Insert" /\ last'.ok /\ ~tree'.crashed
            /\ tree.root_page_id # INVALID_PAGE_ID =>
          \A leaf \in {FindLeafPage(Running(bpm, tree.root_page_id), last'.key).page_id} :
             LET before == Now(leaf)
                 after == PageNow(bpm', leaf)
                 slots == {before.array[i] : i \in DOMAIN before.array}
                             \cup {MappingType(last'.key, last'.value)}
                 all == [i \in 1 .. Cardinality(slots) |->
                            CHOOSE e \in slots : Cardinality({d \in slots : d.key < e.key}) = i - 1]
                 mid == before.max_size \div 2
                 right == PageNow(bpm', after.next_page_id)
                 parent == PageNow(bpm', right.parent_page_id)
             IN IF Len(all) < before.max_size
                THEN /\ after = [before EXCEPT !.array = all]
                     /\ bpm'.next_page_id = bpm.next_page_id
                ELSE /\ after.array = SubSeq(all, 1, mid)
                     /\ after.prev_page_id = before.prev_page_id
                     /\ after.next_page_id >= bpm.next_page_id
                     /\ IsLeafPage(right)
                     /\ right.array = SubSeq(all, mid + 1, Len(all))
                     /\ right.prev_page_id = leaf
                     /\ right.next_page_id = before.next_page_id
                     /\ before.next_page_id # INVALID_PAGE_ID =>
                           PageNow(bpm', before.next_page_id).prev_page_id = right.page_id
                     /\ \/ \E i \in 1 .. GetSize(parent) :
                              /\ KeyAt(parent, i) = all[mid + 1].key
                              /\ ValueAt(parent, i) = right.page_id
                        \/ /\ ValueAt(parent, 0) = right.page_id
                           /\ \E p \in TreePages' :
                                 /\ ~IsLeafPage(PageNow(bpm', p))
                                 /\ \E i \in 1 .. GetSize(PageNow(bpm', p)) :
                                       KeyAt(PageNow(bpm', p), i) = all[mid + 1].key]_vars

\* an Insert split a leaf that had a successor: three leaves were written
LeafSplitsAtMaxWitness ==
    /\ ~tree.crashed
    /\ last.op = "Insert" /\ last.ok
    /\ Cardinality({p \in last.modified : IsLeafPage(Now(p))}) >= 3

\* C30: the leaf an under-full leaf steals from or merges with is a child of
\* the same parent: the child after it, or the child before it when the leaf
\* is its parent's last child.
PartnerIsSibling ==
    [][last'.op = "Remove" /\ ~tree'.crashed =>
          \A pair \in last'.partners :
             LET parent == Now(Now(pair[1]).parent_page_id)
                 index == SearchPosition(parent, pair[1])
             IN /\ Now(pair[2]).parent_page_id = Now(pair[1]).parent_page_id
                /\ pair[2] = IF index = GetSize(parent) THEN ValueAt(parent, index - 1)
                             ELSE ValueAt(parent, index + 1)]_vars

\* C37: a NewPage that returns nullptr changes nothing of the pool, the next
\* page id included.
FailedNewPageNoChange ==
    [][last'.op = "NewPage" /\ ~last'.ok => bpm' = bpm]_vars

\* C33: no call of the index asks the pool for INVALID_PAGE_ID: the page
\* table never holds a frame for it.
NeverFetchesInvalidPage ==
    ~tree.crashed => bpm.page_table[INVALID_PAGE_ID] = NoFrame

\* C32: the descent from the root to a leaf acquires the child before it
\* releases the parent: no call fetches a child while the frame of the parent
\* it came from has pin_count 0.
DescentHoldsParent ==
    ~tree.crashed => ~last.unheld

\* C31: a call of the index writes the content of a page only while it holds
\* a pin on it: no store goes to a frame whose pin_count is 0.
WritesOnlyPinned ==
    ~tree.crashed => ~last.unpinned_write

\* C34: the leaves form a doubly-linked list: the leaf list from the first
\* leaf through next_page_id holds every leaf below the root once, the prev
\* of its first leaf and the next of its last leaf are INVALID_PAGE_ID, and
\* each leaf's prev_page_id names the leaf before it.
LeafListDoublyLinked ==
    ~tree.crashed /\ tree.root_page_id # INVALID_PAGE_ID =>
       \A leaves \in {{p \in TreePages : IsLeafPage(Now(p))}} :
          /\ \A p \in leaves :
                /\ Now(p).next_page_id # INVALID_PAGE_ID =>
                      /\ Now(p).next_page_id \in leaves
                      /\ Now(Now(p).next_page_id).prev_page_id = p
                /\ Now(p).prev_page_id # INVALID_PAGE_ID =>
                      /\ Now(p).prev_page_id \in leaves
                      /\ Now(Now(p).prev_page_id).next_page_id = p
          /\ {p \in leaves : Now(p).prev_page_id = INVALID_PAGE_ID}
                = {FirstLeaf(tree.root_page_id, Steps)}
          /\ Cardinality({p \in leaves : Now(p).next_page_id = INVALID_PAGE_ID}) = 1
          /\ \A list \in {LeafList(FirstLeaf(tree.root_page_id, Steps), Steps)} :
                {list[i].key : i \in DOMAIN list}
                   = UNION {{Now(p).array[i].key : i \in DOMAIN Now(p).array} : p \in leaves}

\* a Remove has merged or stolen between two leaves and left a list of at
\* least three leaves, the middle one linked both ways
LeafListDoublyLinkedWitness ==
    /\ ~tree.crashed
    /\ last.op = "Remove"
    /\ last.partners # {}
    /\ \E p \in TreePages :
          /\ IsLeafPage(Now(p))
          /\ p \in last.modified
          /\ Now(p).prev_page_id # INVALID_PAGE_ID
          /\ Now(p).next_page_id # INVALID_PAGE_ID

\* C35: every DeletePage of a Remove succeeds: when Remove has returned, the
\* page table holds no page of the index that the root no longer reaches.
RemoveDeletesItsPages ==
    ~tree.crashed /\ last.op = "Remove" =>
       \A p \in DOMAIN bpm.page_table \ {HEADER_PAGE_ID, INVALID_PAGE_ID} :
          bpm.page_table[p] # NoFrame => p \in TreePages

\* C36: after Insert or Remove has returned no node below the root holds
\* max_size entries or more.
NoNodeAtMax ==
    ~tree.crashed /\ last.op \in {"Insert", "Remove"} =>
       \A p \in TreePages : GetSize(Now(p)) < Now(p).max_size

\* a Remove has merged a leaf into its neighbour and the neighbour is one
\* entry short of max_size
NoNodeAtMaxWitness ==
    /\ ~tree.crashed
    /\ last.op = "Remove"
    /\ \E pair \in last.partners :
          /\ pair[1] \notin TreePages
          /\ pair[2] \in TreePages
          /\ pair[2] \in last.modified
          /\ GetSize(Now(pair[2])) = Now(pair[2]).max_size - 1
====
